---- MODULE Spec2Model ----
(***************************************************************************)
(* OpenMemoryX memory core: MemoryService (add / search / get_all /        *)
(* get_by_id, envelope encryption, DEK registry), the temporal knowledge   *)
(* graph layered on it, and the HTTP by-id route.                          *)
(*                                                                         *)
(* Conventions                                                             *)
(*  - a Python dict is a TLA+ record/function; dict.get(k, d) is Get.      *)
(*  - Python None is the string None for string-valued fields and NoTime   *)
(*    for time-valued fields; an absent key is absent from DOMAIN.         *)
(*  - a Python list is a sequence.                                         *)
(*  - scores are exact rationals: similarities in hundredths, boosts in    *)
(*    tenths, so final scores are in units of 1/10000.                     *)
(*  - the clock counts ticks; TicksPerDay ticks make one day.              *)
(***************************************************************************)
EXTENDS Integers, Sequences, FiniteSets, TLC

VARIABLES
    encryption,   \* MemoryService.encryption is set (master key configured)
    store,        \* the vector-store collection "mem0": point id -> payload (+ vector)
    dekRows,      \* table UserEncryptionKey: user_id -> row
    nextDek,      \* source of fresh DEK values (secrets.token_bytes(32))
    now,          \* the wall clock read by datetime.now()
    workers,      \* worker processes inside add (position and locals)
    resp          \* the response of the last completed operation

vars == <<encryption, store, dekRows, nextDek, now, workers, resp>>

(***************************************************************************)
(* Bounds of the model.                                                    *)
(***************************************************************************)
MaxRecords == 2
MaxDeks == 3
MaxTemporalRecords == 2
MaxLegacyAdds == 1
MaxRankRecords == 3
MaxScoreAdds == 2
MaxCallRecords == 1
MaxTaskRecords == 2
MaxTimelineRecords == 2
TicksPerDay == 2

(***************************************************************************)
(* Value universes.                                                        *)
(***************************************************************************)
None == "None"
NoTime == -1
NoDek == 0

Users == {"u1", "u2"}
Sectors == {"episodic", "semantic", "procedural", "emotional", "reflective"}

\* "A+" stands for a text with the same first 100 characters as "A" and a
\* longer tail; every other text is shorter than 100 characters.
Contents == {"A", "A+", "B"}

Prefix100(c) == IF c = "A+" THEN "A" ELSE c

Prefix50(c) == IF c = "A+" THEN "A" ELSE c

EmptyDict == [k \in {} |-> None]

Get(d, k, default) == IF k \in DOMAIN d THEN d[k] ELSE default

Range(s) == {s[i] : i \in DOMAIN s}

\* Python truthiness of a string-or-None value.
Truthy(x) == x \notin {None, ""}

Min(a, b) == IF a < b THEN a ELSE b

(***************************************************************************)
(* EncryptionManager.  Ciphertexts are symbolic: an AES-GCM ciphertext     *)
(* remembers the plaintext, the key and the nonce it was made with, and    *)
(* opens only under the same key and nonce.                                *)
(***************************************************************************)
MasterKey == "mk"
InvalidTag == "raise InvalidTag"
Nonces == {"n1", "n2"}

encrypt_dek(dek) == [mk |-> MasterKey, dek |-> dek]

decrypt_dek(encrypted_dek) ==
    IF encrypted_dek.mk = MasterKey THEN encrypted_dek.dek ELSE NoDek

encrypt_content(content, dek, nonce) ==
    [pt |-> content, key |-> dek, nonce |-> nonce]

decrypt_content(encrypted_content, nonce, dek) ==
    IF encrypted_content.key = dek /\ encrypted_content.nonce = nonce
    THEN encrypted_content.pt
    ELSE InvalidTag

b64encode(x) == [b64 |-> x]

b64decode(s) == s.b64

(***************************************************************************)
(* The DEK registry (table UserEncryptionKey, one row per user_id).        *)
(***************************************************************************)
KeyRow(encrypted_dek, is_active) ==
    [encrypted_dek |-> encrypted_dek, is_active |-> is_active]

\* db.query(UserEncryptionKey).filter(user_id == u).first()
QueryKeyRecord(rows, u) == IF u \in DOMAIN rows THEN <<rows[u]>> ELSE <<>>

PutKeyRecord(rows, u, row) ==
    [x \in DOMAIN rows \cup {u} |-> IF x = u THEN row ELSE rows[x]]

\* db.add(key_record); db.commit() of a new row: the table is keyed by
\* user_id, so the commit raises when a row for the user is already there.
InsertKeyRecord(rows, u, row) ==
    IF u \in DOMAIN rows THEN [ok |-> FALSE, rows |-> rows]
    ELSE [ok |-> TRUE, rows |-> PutKeyRecord(rows, u, row)]

\* FinishUserDek that never reuses the stored key: every call draws a new DEK.
FinishUserDekAlwaysFresh(user_id, enc, key_record, rows, fresh, dbOk) ==
    IF ~enc \/ ~dbOk THEN [dek |-> NoDek, rows |-> rows, fresh |-> fresh]
    ELSE [dek |-> fresh,
          rows |-> PutKeyRecord(rows, user_id, KeyRow(encrypt_dek(fresh), TRUE)),
          fresh |-> fresh + 1]

\* _get_or_create_user_dek from the point where the query has answered
\* key_record (<<>> for no row, <<row>> otherwise), against the table as it
\* is when the call commits.  dbOk = FALSE: the database session or the
\* commit raises, and the call returns None.
\* Result: the DEK (NoDek for None), the table and the DEK source after it.
FinishUserDek(user_id, enc, key_record, rows, fresh, dbOk) ==
    IF ~enc THEN [dek |-> NoDek, rows |-> rows, fresh |-> fresh]
    ELSE IF ~dbOk THEN [dek |-> NoDek, rows |-> rows, fresh |-> fresh]
    ELSE IF key_record # <<>> /\ key_record[1].is_active
    THEN [dek |-> decrypt_dek(key_record[1].encrypted_dek),
          rows |-> rows, fresh |-> fresh]
    ELSE IF key_record # <<>>
    THEN [dek |-> fresh,
          rows |-> PutKeyRecord(rows, user_id, KeyRow(encrypt_dek(fresh), TRUE)),
          fresh |-> fresh + 1]
    ELSE LET ins == InsertKeyRecord(rows, user_id, KeyRow(encrypt_dek(fresh), TRUE))
         IN  [dek |-> IF ins.ok THEN fresh ELSE NoDek,
              rows |-> ins.rows,
              fresh |-> fresh + 1]

\* _get_or_create_user_dek as one uninterrupted call.
GetOrCreateUserDek(user_id, enc, rows, fresh, dbOk) ==
    FinishUserDek(user_id, enc, QueryKeyRecord(rows, user_id), rows, fresh, dbOk)

(***************************************************************************)
(* MemoryService: content encryption and decryption.                       *)
(***************************************************************************)
\* An encrypter that reports is_encrypted = true also when the cipher raised.
EncryptMemoryContentNoDowngrade(content, dek, nonce, encOk) ==
    IF dek = NoDek THEN [content |-> content, is_encrypted |-> FALSE]
    ELSE [content |-> content, is_encrypted |-> TRUE,
          encrypted_content |-> b64encode(encrypt_content(content, dek, nonce)),
          content_nonce |-> b64encode(nonce)]

\* _encrypt_memory_content after the DEK is obtained.  encOk = FALSE:
\* encrypt_content raises and the plaintext is stored.
EncryptMemoryContent(content, dek, nonce, encOk) ==
    IF dek = NoDek THEN [content |-> content, is_encrypted |-> FALSE]
    ELSE IF encOk
    THEN [content |-> content,
          encrypted_content |-> b64encode(encrypt_content(content, dek, nonce)),
          content_nonce |-> b64encode(nonce),
          is_encrypted |-> TRUE]
    ELSE [content |-> content, is_encrypted |-> FALSE]

UnableToDecrypt == "[Encrypted content - unable to decrypt]"
DecryptionFailed == "[Encrypted content - decryption failed]"

\* The payload is read without asking for a DEK.
NeedsNoDek(payload) ==
    \/ ~Get(payload, "is_encrypted", FALSE)
    \/ "encrypted_content" \notin DOMAIN payload
    \/ "content_nonce" \notin DOMAIN payload

\* A reader that asks for the DEK before it looks at is_encrypted.
DecryptMemoryContentDekFirst(payload, dek) ==
    IF dek = NoDek THEN UnableToDecrypt ELSE Get(payload, "content", "")

\* _decrypt_memory_content, given the DEK its call of _get_or_create_user_dek
\* returned (unused when the payload needs none).
DecryptMemoryContent(payload, dek) ==
    IF ~Get(payload, "is_encrypted", FALSE) THEN Get(payload, "content", "")
    ELSE IF "encrypted_content" \notin DOMAIN payload
            \/ "content_nonce" \notin DOMAIN payload
    THEN Get(payload, "content", "")
    ELSE IF dek = NoDek THEN UnableToDecrypt
    ELSE LET decrypted == decrypt_content(b64decode(payload.encrypted_content),
                                          b64decode(payload.content_nonce), dek)
         IN IF decrypted = InvalidTag THEN DecryptionFailed ELSE decrypted

(***************************************************************************)
(* MemoryService.add.                                                      *)
(***************************************************************************)
\* hashlib.md5(f"{user_id}:{title}:{content[:100]}:{datetime.now()}")
MemoryId(user_id, title, content, t) == <<user_id, title, Prefix100(content), t>>

BuildPayload(title, content, user_id, project_id, namespace, memory_types, user_preference, temporal_valid_until, extra_metadata, classification, embedding, encryption_data, t) ==
    LET core == [title |-> IF Truthy(title) THEN title
                           ELSE Get(classification, "generated_title", Prefix50(content)),
                 user_id |-> user_id,
                 content |-> Get(encryption_data, "content", content),
                 is_encrypted |-> Get(encryption_data, "is_encrypted", FALSE),
                 project_id |-> IF Truthy(project_id) THEN project_id ELSE "default",
                 namespace |-> IF Truthy(namespace) THEN namespace ELSE "general",
                 memory_types |-> IF memory_types # <<>> THEN memory_types
                                  ELSE <<"general">>,
                 sector_primary |-> Get(classification, "primary_sector", "semantic"),
                 user_preference |-> user_preference,
                 sector_secondary |-> Get(classification, "secondary_sectors", <<>>),
                 sector_confidence |-> Get(classification, "confidence", 5),
                 semantic_tags |-> Get(classification, "semantic_tags", <<>>),
                 temporal_valid_from |-> t,
                 temporal_valid_until |-> temporal_valid_until,
                 temporal_is_current |-> TRUE,
                 created_at |-> t,
                 updated_at |-> NoTime,
                 access_count |-> 0,
                 last_accessed |-> NoTime,
                 extra_metadata |-> extra_metadata,
                 vector |-> embedding]
        crypt == IF Get(encryption_data, "is_encrypted", FALSE)
                 THEN [encrypted_content |-> encryption_data.encrypted_content,
                       content_nonce |-> encryption_data.content_nonce]
                 ELSE EmptyDict
    IN  core @@ crypt

\* client.upsert(points=[{id, vector, payload}])
Upsert(points, id, payload) ==
    [x \in DOMAIN points \cup {id} |-> IF x = id THEN payload ELSE points[x]]

NoId == <<>>

\* add from the point where the DEK query has answered key_record, writing
\* to the collection `points`.  Inputs from outside the service: the
\* classifier's answer, the embedder's vector, the nonce drawn, and whether
\* the database, the cipher and the vector store answer.
AddFrom(points, memory_id, key_record, title, content, user_id, project_id, namespace, memory_types, user_preference, temporal_valid_until, extra_metadata, classification, embedding, nonce, dbOk, encOk, upsertOk) ==
    LET got == FinishUserDek(user_id, encryption, key_record, dekRows, nextDek, dbOk)
        encryption_data == EncryptMemoryContent(content, got.dek, nonce, encOk)
        payload == BuildPayload(title, content, user_id, project_id, namespace,
                                memory_types, user_preference,
                                temporal_valid_until, extra_metadata,
                                classification, embedding, encryption_data, now)
    IN  /\ got.fresh <= MaxDeks + 1
        /\ dekRows' = got.rows
        /\ nextDek' = got.fresh
        /\ IF upsertOk
           THEN /\ store' = Upsert(points, memory_id, payload)
                /\ resp' = [op |-> "add", ok |-> TRUE, user_id |-> user_id,
                            id |-> memory_id, content |-> content,
                            is_encrypted |-> payload.is_encrypted]
           ELSE /\ store' = points
                /\ resp' = [op |-> "add", ok |-> FALSE, user_id |-> user_id]
        /\ UNCHANGED <<encryption, now>>

\* add as one uninterrupted call.
Add(title, content, user_id, project_id, namespace, memory_types, user_preference, temporal_valid_until, extra_metadata, classification, embedding, nonce, dbOk, encOk, upsertOk) ==
    /\ AddFrom(store, MemoryId(user_id, title, content, now),
               QueryKeyRecord(dekRows, user_id), title, content, user_id,
               project_id, namespace, memory_types, user_preference,
               temporal_valid_until, extra_metadata, classification, embedding,
               nonce, dbOk, encOk, upsertOk)
    /\ UNCHANGED workers

(***************************************************************************)
(* add run by concurrent worker processes: the DEK query and the rest of   *)
(* the call are separate steps, and other workers run in between.          *)
(***************************************************************************)
Workers == {"w1", "w2"}

Idle == [pc |-> "idle"]

AddBegin(w, title, content, user_id, classification, embedding) ==
    /\ workers[w].pc \in {"idle", "done"}
    /\ workers' = [workers EXCEPT ![w] =
                      [pc |-> "queried", title |-> title, content |-> content,
                       user_id |-> user_id, classification |-> classification,
                       embedding |-> embedding,
                       memory_id |-> MemoryId(user_id, title, content, now),
                       key_record |-> IF encryption
                                      THEN QueryKeyRecord(dekRows, user_id)
                                      ELSE <<>>]]
    /\ UNCHANGED <<encryption, store, dekRows, nextDek, now, resp>>

AddFinish(w, nonce, dbOk, encOk, upsertOk) ==
    LET l == workers[w] IN
    /\ l.pc = "queried"
    /\ AddFrom(store, l.memory_id, l.key_record, l.title, l.content, l.user_id,
               None, None, <<>>, FALSE, NoTime, EmptyDict, l.classification,
               l.embedding, nonce, dbOk, encOk, upsertOk)
    /\ workers' = [workers EXCEPT ![w] =
                      [pc |-> "done", user_id |-> l.user_id,
                       first_write |-> l.key_record = <<>>,
                       faultless |-> dbOk /\ encOk /\ upsertOk,
                       encryption |-> encryption,
                       is_encrypted |-> resp'.ok /\ resp'.is_encrypted]]

(***************************************************************************)
(* TemporalKnowledgeGraph.add_with_temporal.                               *)
(***************************************************************************)
\* What the comment in _mark_superseded describes and the body does not do:
\* is_current set to False on the target.
MarkSupersededRetiring(points, memory_id) ==
    IF memory_id \in DOMAIN points
    THEN [points EXCEPT ![memory_id] = [@ EXCEPT !.temporal_is_current = FALSE]]
    ELSE points

\* _mark_superseded: the body is `pass`.
MarkSuperseded(points, memory_id) == points

AddWithTemporal(title, content, user_id, entity, valid_from, valid_until, supersedes, classification, embedding, nonce, dbOk, encOk, upsertOk) ==
    LET from == IF valid_from = NoTime THEN now ELSE valid_from
        points == IF supersedes # NoId THEN MarkSuperseded(store, supersedes)
                  ELSE store
    IN  /\ AddFrom(points, MemoryId(user_id, title, content, now),
                   QueryKeyRecord(dekRows, user_id), title, content, user_id,
                   None, None, <<>>, FALSE, valid_until,
                   [temporal_entity |-> entity, temporal_valid_from |-> from,
                    supersedes |-> supersedes, superseded_by |-> NoId],
                   classification, embedding, nonce, dbOk, encOk, upsertOk)
        /\ UNCHANGED workers

(***************************************************************************)
(* The vector store's side of search and scroll.                           *)
(***************************************************************************)
Embeddings == {"zero", "e1", "e2"}

\* Cosine similarity of two stored directions, in hundredths; the all-zero
\* vector scores 0 against everything.
Cosine(a, b) ==
    IF a = "zero" \/ b = "zero" THEN 0
    ELSE IF a = b THEN 90
    ELSE 60

\* Matches with the user_id condition left out of the filter.
MatchesNoOwner(payload, user_id, project_id, only_current) ==
    /\ Truthy(project_id) =>
          ("project_id" \in DOMAIN payload /\ payload.project_id = project_id)
    /\ only_current =>
          ("temporal_is_current" \in DOMAIN payload /\ payload.temporal_is_current)

\* Filter(must=[user_id, project_id?, temporal_is_current?]); a condition on
\* a key the payload lacks does not match.
Matches(payload, user_id, project_id, only_current) ==
    /\ "user_id" \in DOMAIN payload /\ payload.user_id = user_id
    /\ Truthy(project_id) =>
          ("project_id" \in DOMAIN payload /\ payload.project_id = project_id)
    /\ only_current =>
          ("temporal_is_current" \in DOMAIN payload /\ payload.temporal_is_current)

MatchingIds(points, user_id, project_id, only_current) ==
    {id \in DOMAIN points : Matches(points[id], user_id, project_id, only_current)}

\* Sequences of n distinct elements of S.
Arrangements(S, n) ==
    {f \in [1..n -> S] : \A i, j \in 1..n : i # j => f[i] # f[j]}

\* client.search(query_vector, query_filter, limit=k): the k most similar
\* matching points, most similar first; the order among equals is the store's.
AnnAnswers(points, query_vector, user_id, project_id, only_current, k) ==
    LET M == MatchingIds(points, user_id, project_id, only_current)
        n == Min(k, Cardinality(M))
        sim(id) == Cosine(query_vector, points[id].vector)
    IN  {h \in Arrangements(M, n) :
            /\ \A i \in 1..n - 1 : sim(h[i]) >= sim(h[i + 1])
            /\ \A id \in M \ Range(h) : \A i \in 1..n : sim(h[i]) >= sim(id)}

\* client.scroll(scroll_filter, limit): one page of matching points.
ScrollAnswers(points, user_id, project_id, limit) ==
    LET M == MatchingIds(points, user_id, project_id, FALSE)
    IN  Arrangements(M, Min(limit, Cardinality(M)))

(***************************************************************************)
(* MemoryService.search and its helpers.                                   *)
(***************************************************************************)
\* A sector factor that excludes: 0 for a record outside the requested sectors.
CalculateSectorBoostExcluding(payload, query_sectors) ==
    IF query_sectors = <<>> THEN 10
    ELSE IF Get(payload, "sector_primary", "") \in Range(query_sectors) THEN 12
    ELSE IF \E s \in Range(query_sectors) : s \in Range(Get(payload, "sector_secondary", <<>>)) THEN 11
    ELSE 0

\* _calculate_sector_boost, in tenths.
CalculateSectorBoost(payload, query_sectors) ==
    IF query_sectors = <<>> THEN 10
    ELSE LET primary == Get(payload, "sector_primary", "")
             secondary == Get(payload, "sector_secondary", <<>>)
         IN  IF primary \in Range(query_sectors) THEN 12
             ELSE IF \E s \in Range(query_sectors) : s \in Range(secondary) THEN 11
             ELSE 8

\* _calculate_time_boost, in tenths; an unparsable created_at gives 1.0.
CalculateTimeBoost(created_at, t) ==
    IF created_at = NoTime THEN 10
    ELSE LET days_old == (t - created_at) \div TicksPerDay
         IN  IF days_old < 7 THEN 12
             ELSE IF days_old < 30 THEN 11
             ELSE IF days_old > 365 THEN 8
             ELSE 10

\* CompositeScorer._calculate_access_boost, in hundredths:
\* min(1.0 + access_count * ACCESS_DECAY, MAX_ACCESS_BOOST).  search does not
\* call it.
CalculateAccessBoost(access_count) == Min(100 + access_count * 2, 120)

\* The memory_types post-filter of the search loop.
PassesTypes(payload, memory_types) ==
    memory_types # <<>> =>
        \E t \in Range(memory_types) : t \in Range(Get(payload, "memory_types", <<>>))

\* Decryption of the payloads a request reads, in order, each through its own
\* call of _get_or_create_user_dek; the table and the DEK source are threaded.
RECURSIVE DecryptEach(_, _, _, _, _, _)
DecryptEach(payloads, user_id, enc, rows, fresh, dbOk) ==
    IF payloads = <<>> THEN [contents |-> <<>>, rows |-> rows, fresh |-> fresh]
    ELSE LET p == Head(payloads)
             got == IF NeedsNoDek(p)
                    THEN [dek |-> NoDek, rows |-> rows, fresh |-> fresh]
                    ELSE GetOrCreateUserDek(user_id, enc, rows, fresh, dbOk)
             rest == DecryptEach(Tail(payloads), user_id, enc, got.rows, got.fresh, dbOk)
         IN  [contents |-> <<DecryptMemoryContent(p, got.dek)>> \o rest.contents,
              rows |-> rest.rows, fresh |-> rest.fresh]

\* list.sort(key=score, reverse=True): stable, highest score first.
RECURSIVE InsertDesc(_, _)
InsertDesc(sorted, x) ==
    IF sorted = <<>> THEN <<x>>
    ELSE IF Head(sorted).score >= x.score
    THEN <<Head(sorted)>> \o InsertDesc(Tail(sorted), x)
    ELSE <<x>> \o sorted

\* The scored list left in the order the store answered.
SortByScoreNone(items) == items

RECURSIVE SortByScoreDesc(_)
SortByScoreDesc(items) ==
    IF items = <<>> THEN <<>>
    ELSE InsertDesc(SortByScoreDesc(SubSeq(items, 1, Len(items) - 1)),
                    items[Len(items)])

\* scored_results[:limit]
Take(items, limit) == SubSeq(items, 1, Min(limit, Len(items)))

SearchItem(id, payload, content, final_score) ==
    [id |-> id,
     title |-> Get(payload, "title", None),
     content |-> content,
     score |-> final_score,
     primary |-> Get(payload, "sector_primary", None),
     is_current |-> Get(payload, "temporal_is_current", FALSE),
     valid_from |-> Get(payload, "temporal_valid_from", NoTime),
     is_encrypted |-> Get(payload, "is_encrypted", FALSE)]

\* The loop of search over the store's answer: filter, score, decrypt.
ScoredResults(points, hits, query_vector, sectors, contents, t) ==
    [i \in 1..Len(hits) |->
        LET payload == points[hits[i]]
            final_score == Cosine(query_vector, payload.vector)
                           * CalculateSectorBoost(payload, sectors)
                           * CalculateTimeBoost(Get(payload, "created_at", NoTime), t)
        IN  SearchItem(hits[i], payload, contents[i], final_score)]

Search(query_vector, user_id, project_id, sectors, memory_types, only_current, limit, dbOk) ==
    \E answer \in AnnAnswers(store, query_vector, user_id, project_id,
                             only_current, limit * 2) :
        LET hits == SelectSeq(answer, LAMBDA id :
                                  /\ CalculateSectorBoost(store[id], sectors) # 0
                                  /\ PassesTypes(store[id], memory_types))
            payloads == [i \in 1..Len(hits) |-> store[hits[i]]]
            dec == DecryptEach(payloads, user_id, encryption, dekRows, nextDek, dbOk)
            scored_results == ScoredResults(store, hits, query_vector, sectors,
                                            dec.contents, now)
        IN  /\ dec.fresh <= MaxDeks + 1
            /\ dekRows' = dec.rows
            /\ nextDek' = dec.fresh
            /\ resp' = [op |-> "search", user_id |-> user_id, limit |-> limit,
                        db_ok |-> dbOk, query_vector |-> query_vector,
                        sectors |-> sectors,
                        total_found |-> Len(scored_results),
                        candidates |-> scored_results,
                        results |-> Take(SortByScoreDesc(scored_results), limit)]
            /\ UNCHANGED <<encryption, store, now, workers>>

(***************************************************************************)
(* MemoryService.get_all and get_by_id.                                    *)
(***************************************************************************)
ListItem(id, payload, content) ==
    [id |-> id,
     title |-> Get(payload, "title", None),
     content |-> content,
     is_encrypted |-> Get(payload, "is_encrypted", FALSE)]

GetAll(user_id, project_id, limit, dbOk) ==
    \E page \in ScrollAnswers(store, user_id, project_id, limit) :
        LET payloads == [i \in 1..Len(page) |-> store[page[i]]]
            dec == DecryptEach(payloads, user_id, encryption, dekRows, nextDek, dbOk)
        IN  /\ dec.fresh <= MaxDeks + 1
            /\ dekRows' = dec.rows
            /\ nextDek' = dec.fresh
            /\ resp' = [op |-> "get_all", user_id |-> user_id, db_ok |-> dbOk,
                        results |-> [i \in 1..Len(page) |->
                                        ListItem(page[i], payloads[i], dec.contents[i])],
                        count |-> Len(page)]
            /\ UNCHANGED <<encryption, store, now, workers>>

\* get_by_id returning None.
NotFound == [found |-> FALSE]

\* retrieveOk = FALSE: client.retrieve raises, which get_by_id turns into None.
GetById(memory_id, user_id, dbOk, retrieveOk) ==
    LET request == [op |-> "get_by_id", id |-> memory_id, user_id |-> user_id,
                    db_ok |-> dbOk, retrieve_ok |-> retrieveOk]
    IN  IF ~retrieveOk \/ memory_id \notin DOMAIN store
           \/ Get(store[memory_id], "user_id", None) # user_id
        THEN /\ resp' = request @@ [result |-> NotFound]
             /\ UNCHANGED <<encryption, store, dekRows, nextDek, now, workers>>
        ELSE LET payload == store[memory_id]
                 dec == DecryptEach(<<payload>>, user_id, encryption, dekRows,
                                    nextDek, dbOk)
             IN  /\ dec.fresh <= MaxDeks + 1
                 /\ dekRows' = dec.rows
                 /\ nextDek' = dec.fresh
                 /\ resp' = request @@
                       [result |-> [found |-> TRUE, id |-> memory_id,
                                    content |-> dec.contents[1],
                                    is_encrypted |-> Get(payload, "is_encrypted", FALSE)]]
                 /\ UNCHANGED <<encryption, store, now, workers>>

(***************************************************************************)
(* The HTTP route GET /v1/memories/{memory_id}.                            *)
(***************************************************************************)
\* The public methods class MemoryService defines.
MemoryServiceMethods == {"add", "search", "get_all", "get_by_id"}

\* get_memory: service.get(memory_id), then the route's own checks.  A call
\* of a method the class lacks raises AttributeError, answered as 500.
GetMemoryRoute(memory_id, caller) ==
    /\ resp' = [op |-> "GET /memories/{id}", user_id |-> caller, id |-> memory_id,
                status |-> IF "get" \notin MemoryServiceMethods THEN 500
                           ELSE IF memory_id \notin DOMAIN store THEN 404
                           ELSE IF Get(store[memory_id], "user_id", None) # caller
                           THEN 403
                           ELSE 200]
    /\ UNCHANGED <<encryption, store, dekRows, nextDek, now, workers>>

(***************************************************************************)
(* Texts.  A text is a string; Chars gives its characters, on which lower, *)
(* split, len and the substring test are computed.                         *)
(***************************************************************************)
Texts == {"Step 1: install the agent",
          "We discussed how to deploy",
          "I love the new dashboard",
          "Yesterday we should meet",
          "You should cache results",
          "Postgres listens on 5432",
          "It is unlikely to matter",
          "word01 word02 word03 word04 word05 word06 word07 word08 word09 word10 word11"}

\* The characters of a text or of a keyword.
Chars(s) ==
    CASE s = "Step 1: install the agent" -> <<"S", "t", "e", "p", " ", "1", ":", " ", "i", "n", "s", "t", "a", "l", "l", " ", "t", "h", "e", " ", "a", "g", "e", "n", "t">>
      [] s = "We discussed how to deploy" -> <<"W", "e", " ", "d", "i", "s", "c", "u", "s", "s", "e", "d", " ", "h", "o", "w", " ", "t", "o", " ", "d", "e", "p", "l", "o", "y">>
      [] s = "I love the new dashboard" -> <<"I", " ", "l", "o", "v", "e", " ", "t", "h", "e", " ", "n", "e", "w", " ", "d", "a", "s", "h", "b", "o", "a", "r", "d">>
      [] s = "Yesterday we should meet" -> <<"Y", "e", "s", "t", "e", "r", "d", "a", "y", " ", "w", "e", " ", "s", "h", "o", "u", "l", "d", " ", "m", "e", "e", "t">>
      [] s = "You should cache results" -> <<"Y", "o", "u", " ", "s", "h", "o", "u", "l", "d", " ", "c", "a", "c", "h", "e", " ", "r", "e", "s", "u", "l", "t", "s">>
      [] s = "Postgres listens on 5432" -> <<"P", "o", "s", "t", "g", "r", "e", "s", " ", "l", "i", "s", "t", "e", "n", "s", " ", "o", "n", " ", "5", "4", "3", "2">>
      [] s = "It is unlikely to matter" -> <<"I", "t", " ", "i", "s", " ", "u", "n", "l", "i", "k", "e", "l", "y", " ", "t", "o", " ", "m", "a", "t", "t", "e", "r">>
      [] s = "word01 word02 word03 word04 word05 word06 word07 word08 word09 word10 word11" -> <<"w", "o", "r", "d", "0", "1", " ", "w", "o", "r", "d", "0", "2", " ", "w", "o", "r", "d", "0", "3", " ", "w", "o", "r", "d", "0", "4", " ", "w", "o", "r", "d", "0", "5", " ", "w", "o", "r", "d", "0", "6", " ", "w", "o", "r", "d", "0", "7", " ", "w", "o", "r", "d", "0", "8", " ", "w", "o", "r", "d", "0", "9", " ", "w", "o", "r", "d", "1", "0", " ", "w", "o", "r", "d", "1", "1">>
      [] s = "step" -> <<"s", "t", "e", "p">>
      [] s = "how to" -> <<"h", "o", "w", " ", "t", "o">>
      [] s = "guide" -> <<"g", "u", "i", "d", "e">>
      [] s = "deploy" -> <<"d", "e", "p", "l", "o", "y">>
      [] s = "install" -> <<"i", "n", "s", "t", "a", "l", "l">>
      [] s = "like" -> <<"l", "i", "k", "e">>
      [] s = "love" -> <<"l", "o", "v", "e">>
      [] s = "hate" -> <<"h", "a", "t", "e">>
      [] s = "frustrated" -> <<"f", "r", "u", "s", "t", "r", "a", "t", "e", "d">>
      [] s = "happy" -> <<"h", "a", "p", "p", "y">>
      [] s = "yesterday" -> <<"y", "e", "s", "t", "e", "r", "d", "a", "y">>
      [] s = "meeting" -> <<"m", "e", "e", "t", "i", "n", "g">>
      [] s = "discussed" -> <<"d", "i", "s", "c", "u", "s", "s", "e", "d">>
      [] s = "we talked" -> <<"w", "e", " ", "t", "a", "l", "k", "e", "d">>
      [] s = "should" -> <<"s", "h", "o", "u", "l", "d">>
      [] s = "recommend" -> <<"r", "e", "c", "o", "m", "m", "e", "n", "d">>
      [] s = "lesson" -> <<"l", "e", "s", "s", "o", "n">>
      [] s = "insight" -> <<"i", "n", "s", "i", "g", "h", "t">>

\* str.join of characters back into a word.
Join(w) ==
    CASE w = <<"1", ":">> -> "1:"
      [] w = <<"5", "4", "3", "2">> -> "5432"
      [] w = <<"a", "g", "e", "n", "t">> -> "agent"
      [] w = <<"c", "a", "c", "h", "e">> -> "cache"
      [] w = <<"d", "a", "s", "h", "b", "o", "a", "r", "d">> -> "dashboard"
      [] w = <<"d", "e", "p", "l", "o", "y">> -> "deploy"
      [] w = <<"d", "i", "s", "c", "u", "s", "s", "e", "d">> -> "discussed"
      [] w = <<"h", "o", "w">> -> "how"
      [] w = <<"i">> -> "i"
      [] w = <<"i", "n", "s", "t", "a", "l", "l">> -> "install"
      [] w = <<"i", "s">> -> "is"
      [] w = <<"i", "t">> -> "it"
      [] w = <<"l", "i", "s", "t", "e", "n", "s">> -> "listens"
      [] w = <<"l", "o", "v", "e">> -> "love"
      [] w = <<"m", "a", "t", "t", "e", "r">> -> "matter"
      [] w = <<"m", "e", "e", "t">> -> "meet"
      [] w = <<"n", "e", "w">> -> "new"
      [] w = <<"o", "n">> -> "on"
      [] w = <<"p", "o", "s", "t", "g", "r", "e", "s">> -> "postgres"
      [] w = <<"r", "e", "s", "u", "l", "t", "s">> -> "results"
      [] w = <<"s", "h", "o", "u", "l", "d">> -> "should"
      [] w = <<"s", "t", "e", "p">> -> "step"
      [] w = <<"t", "h", "e">> -> "the"
      [] w = <<"t", "o">> -> "to"
      [] w = <<"u", "n", "l", "i", "k", "e", "l", "y">> -> "unlikely"
      [] w = <<"w", "e">> -> "we"
      [] w = <<"w", "o", "r", "d", "0", "1">> -> "word01"
      [] w = <<"w", "o", "r", "d", "0", "2">> -> "word02"
      [] w = <<"w", "o", "r", "d", "0", "3">> -> "word03"
      [] w = <<"w", "o", "r", "d", "0", "4">> -> "word04"
      [] w = <<"w", "o", "r", "d", "0", "5">> -> "word05"
      [] w = <<"w", "o", "r", "d", "0", "6">> -> "word06"
      [] w = <<"w", "o", "r", "d", "0", "7">> -> "word07"
      [] w = <<"w", "o", "r", "d", "0", "8">> -> "word08"
      [] w = <<"w", "o", "r", "d", "0", "9">> -> "word09"
      [] w = <<"w", "o", "r", "d", "1", "0">> -> "word10"
      [] w = <<"w", "o", "r", "d", "1", "1">> -> "word11"
      [] w = <<"y", "e", "s", "t", "e", "r", "d", "a", "y">> -> "yesterday"
      [] w = <<"y", "o", "u">> -> "you"

LowerChar(c) ==
    CASE c = "I" -> "i"
      [] c = "P" -> "p"
      [] c = "S" -> "s"
      [] c = "W" -> "w"
      [] c = "Y" -> "y"
      [] OTHER -> c

\* str.lower()
Lower(chars) == [i \in DOMAIN chars |-> LowerChar(chars[i])]

\* w in text, for strings as character sequences
IsSubstring(w, text) ==
    \E i \in 0..(Len(text) - Len(w)) : SubSeq(text, i + 1, i + Len(w)) = w

\* str.split(): the maximal runs of non-blank characters, in order.
RECURSIVE Split(_)
Split(chars) ==
    IF chars = <<>> THEN <<>>
    ELSE IF Head(chars) = " " THEN Split(Tail(chars))
    ELSE LET blanks == {i \in DOMAIN chars : chars[i] = " "}
             end == IF blanks = {} THEN Len(chars)
                    ELSE (CHOOSE i \in blanks : \A j \in blanks : i <= j) - 1
         IN  <<SubSeq(chars, 1, end)>> \o Split(SubSeq(chars, end + 1, Len(chars)))

(***************************************************************************)
(* MemoryClassifier.  A JSON value is tagged with its type, so that the    *)
(* type errors the code runs into are computed, not assumed.               *)
(***************************************************************************)
JStr(v) == [t |-> "str", v |-> v]

JNum(v) == [t |-> "num", v |-> v]

JList(v) == [t |-> "list", v |-> v]

JDict(v) == [t |-> "dict", v |-> v]

JNull == [t |-> "null"]

\* A text that json.loads parses to the given value, and one it rejects.
JsonText(value) == [valid |-> TRUE, value |-> value]

NotJsonText == [valid |-> FALSE]

\* What httpx.post(...) gives classify: an exception (connection error,
\* timeout), or a response with a status and a body that is JSON or not.
LlmRaises == [kind |-> "raise"]

LlmResponse(status, body) == [kind |-> "response", status |-> status, body |-> body]

Raised == [raised |-> TRUE]

Max(a, b) == IF a > b THEN a ELSE b

\* The words _extract_basic_keywords keeps: longer than 4, no stop word.
BasicKeywords(content) ==
    LET words == Split(Lower(Chars(content)))
        stop_words == {"the", "a", "an", "is", "are", "was", "were", "be", "been"}
    IN  {Join(words[i]) : i \in {j \in DOMAIN words :
                                   Len(words[j]) > 4 /\ Join(words[j]) \notin stop_words}}

\* A sequence holding the elements of S once each.
RECURSIVE SeqOfSet(_)
SeqOfSet(S) ==
    IF S = {} THEN <<>>
    ELSE LET x == CHOOSE y \in S : TRUE IN <<x>> \o SeqOfSet(S \ {x})

\* _extract_basic_keywords: list(set(keywords))[:10].  Which ten of more
\* than ten words survive is the interpreter's choice (set order): every
\* choice of words is an answer; the order within the list is fixed here.
ExtractBasicKeywords(content) ==
    LET kw == BasicKeywords(content)
    IN  {SeqOfSet(S) : S \in {T \in SUBSET kw : Cardinality(T) = Min(10, Cardinality(kw))}}

\* _fallback_classification; keywords is _extract_basic_keywords' answer.
FallbackClassification(title, content, keywords) ==
    LET content_lower == Lower(Chars(content))
        any(ws) == \E w \in ws : IsSubstring(Chars(w), content_lower)
        primary == IF any({"step", "how to", "guide", "deploy", "install"}) THEN "procedural"
                   ELSE IF any({"like", "love", "hate", "frustrated", "happy"}) THEN "emotional"
                   ELSE IF any({"yesterday", "meeting", "discussed", "we talked"}) THEN "episodic"
                   ELSE IF any({"should", "recommend", "lesson", "insight"}) THEN "reflective"
                   ELSE "semantic"
    IN  [primary_sector |-> primary,
         secondary_sectors |-> <<>>,
         confidence |-> 5,
         semantic_tags |-> keywords,
         generated_title |-> IF Truthy(title) THEN title ELSE Prefix50(content)]

\* bool(x) of a JSON value.
JTruthy(j) ==
    CASE j.t = "null" -> FALSE
      [] j.t = "num" -> j.v # 0
      [] j.t = "str" -> j.v # ""
      [] j.t = "list" -> j.v # <<>>
      [] j.t = "dict" -> DOMAIN j.v # {}

\* A normaliser that keeps whatever sectors the answer names.
NormalizeClassificationUnchecked(classification, title, content, keywords) ==
    LET p == Get(classification, "primary_sector", JStr("semantic"))
        s == Get(classification, "secondary_sectors", JList(<<>>))
        tg == Get(classification, "semantic_tags", JList(<<>>))
    IN  [primary_sector |-> IF p.t = "str" THEN p.v ELSE "semantic",
         secondary_sectors |-> IF s.t = "list" THEN s.v ELSE <<>>,
         confidence |-> 5,
         semantic_tags |-> IF tg.t = "list" THEN tg.v ELSE keywords,
         generated_title |-> IF Truthy(title) THEN title ELSE Prefix50(content)]

\* _normalize_classification of a parsed dict: the classification, or Raised
\* when a line of it raises (unhashable primary, secondary or confidence of a
\* type the expression does not take, tags that cannot be sliced).
NormalizeClassification(classification, title, content, keywords) ==
    LET p == Get(classification, "primary_sector", JStr("semantic"))
        primary == IF p.t = "str" /\ p.v \in Sectors THEN p.v ELSE "semantic"
        s == Get(classification, "secondary_sectors", JList(<<>>))
        secondary == IF s.t = "list"
                     THEN SelectSeq(s.v, LAMBDA x : x \in Sectors /\ x # primary)
                     ELSE <<>>
        c == Get(classification, "confidence", JNum(5))
        tg == Get(classification, "semantic_tags", JList(<<>>))
        tags == IF ~JTruthy(tg) THEN keywords ELSE tg.v
        g == Get(classification, "generated_title", JNull)
        generated_title == IF ~Truthy(title) /\ ~JTruthy(g) THEN Prefix50(content)
                           ELSE IF JTruthy(g) THEN g.v
                           ELSE None
    IN  IF \/ p.t \in {"list", "dict"}
           \/ s.t \in {"null", "num"}
           \/ c.t # "num"
           \/ JTruthy(tg) /\ tg.t \notin {"list", "str"}
        THEN Raised
        ELSE [primary_sector |-> primary,
              secondary_sectors |-> Take(secondary, 2),
              confidence |-> Max(0, Min(10, c.v)),
              semantic_tags |-> Take(tags, 10),
              generated_title |-> IF Truthy(generated_title) THEN generated_title
                                  ELSE title]

\* MemoryClassifier.classify.  The status of the response is not looked at:
\* the body is parsed, its "response" text ("{}" when absent) is parsed, and
\* the result is normalised; any exception on the way gives the fallback.
Classify(title, content, llm, keywords) ==
    LET fallback == FallbackClassification(title, content, keywords)
    IN  IF llm.kind = "raise" THEN fallback
        ELSE IF ~llm.body.valid THEN fallback
        ELSE IF llm.body.value.t # "dict" THEN fallback
        ELSE LET text == Get(llm.body.value.v, "response", JsonText(JDict(EmptyDict)))
             IN  IF ~text.valid THEN fallback
                 ELSE IF text.value.t # "dict" THEN fallback
                 ELSE LET normal == NormalizeClassification(text.value.v, title,
                                                            content, keywords)
                      IN  IF normal = Raised THEN fallback ELSE normal

(***************************************************************************)
(* MemoryService._embed and the collection's vector size.                  *)
(***************************************************************************)
EmbeddingSize == 1024

\* The number of components of a vector: "zero" is [0.0] * 1024, "e1" and
\* "e2" are embeddings of the model (bge-m3), "empty" is [], "null" is None.
VectorLen(v) ==
    CASE v \in {"zero", "e1", "e2"} -> EmbeddingSize
      [] v = "empty" -> 0
      [] v = "null" -> -1

\* _embed: response.json().get("embedding", [0.0] * 1024), and [0.0] * 1024
\* when anything raises.  The value under "embedding" is returned as it is.
Embed(emb) ==
    IF emb.kind = "raise" THEN "zero"
    ELSE IF ~emb.body.valid THEN "zero"
    ELSE IF emb.body.value.t # "dict" THEN "zero"
    ELSE Get(emb.body.value.v, "embedding", "zero")

(***************************************************************************)
(* add with its classifier and embedder, run by worker w as one call; the  *)
(* worker keeps what the outside answered during the call.  The collection *)
(* is declared with vectors of EmbeddingSize components, and the store     *)
(* rejects a point whose vector is of another size.                        *)
(***************************************************************************)
AddCall(w, title, content, user_id, llm, keywords, emb, nonce, dbOk, encOk, upsertOk) ==
    LET classification == Classify(title, content, llm, keywords)
        embedding == Embed(emb)
        accepted == upsertOk /\ VectorLen(embedding) = EmbeddingSize
    IN  /\ workers[w].pc # "queried"
        /\ AddFrom(store, MemoryId(user_id, title, content, now),
                   QueryKeyRecord(dekRows, user_id), title, content, user_id,
                   None, None, <<>>, FALSE, NoTime, EmptyDict, classification,
                   embedding, nonce, dbOk, encOk, accepted)
        /\ workers' = [workers EXCEPT ![w] =
                          [pc |-> "done", content |-> content, llm |-> llm,
                           emb |-> emb, db_ok |-> dbOk, enc_ok |-> encOk,
                           upsert_ok |-> upsertOk]]

(***************************************************************************)
(* The environment: process restarts, the clock, the registry's admin.     *)
(***************************************************************************)
\* MemoryService.__init__: encryption is on iff MEMORYX_MASTER_KEY is set.
Restart(master_key_set) ==
    /\ encryption # master_key_set
    /\ \A w \in Workers : workers[w].pc # "queried"
    /\ encryption' = master_key_set
    /\ resp' = [op |-> "restart"]
    /\ UNCHANGED <<store, dekRows, nextDek, now, workers>>

Tick(t) ==
    /\ t > now
    /\ now' = t
    /\ UNCHANGED <<encryption, store, dekRows, nextDek, workers, resp>>

\* Key rotation by the operator retires the user's row (is_active = false).
DeactivateDek(user_id) ==
    /\ user_id \in DOMAIN dekRows
    /\ dekRows[user_id].is_active
    /\ dekRows' = [dekRows EXCEPT ![user_id].is_active = FALSE]
    /\ resp' = [op |-> "deactivate_dek"]
    /\ UNCHANGED <<encryption, store, nextDek, now, workers>>

(***************************************************************************)
(* Points already in the collection when the service starts: written       *)
(* before content encryption existed, or by another writer.                *)
(***************************************************************************)
LegacyId(n) == <<"legacy", None, "", n>>

\* A point of the plaintext corpus, written before payloads had is_encrypted.
LegacyPlain == [user_id |-> "u1", content |-> "old", project_id |-> "default", temporal_is_current |-> TRUE, created_at |-> 0, vector |-> "e1"]

\* A plaintext point that states is_encrypted = false.
LegacyMarkedPlain == [user_id |-> "u2", content |-> "old2", is_encrypted |-> FALSE, project_id |-> "default", temporal_is_current |-> TRUE, created_at |-> 0, vector |-> "e2"]

\* A point marked encrypted whose nonce was never written.
LegacyNoNonce == [user_id |-> "u1", content |-> "", is_encrypted |-> TRUE, encrypted_content |-> b64encode(encrypt_content("lost", 9, "n1")), project_id |-> "default", temporal_is_current |-> TRUE, created_at |-> 0, vector |-> "e1"]

LegacyCorpus == (LegacyId(1) :> LegacyPlain) @@ (LegacyId(2) :> LegacyMarkedPlain) @@ (LegacyId(3) :> LegacyNoNonce)

InitBase ==
    /\ dekRows = EmptyDict
    /\ nextDek = 1
    /\ now = 0
    /\ workers = [w \in Workers |-> Idle]
    /\ resp = [op |-> "none"]

(***************************************************************************)
(* Inputs.                                                                 *)
(***************************************************************************)
Classification(primary, secondary) ==
    [primary_sector |-> primary, secondary_sectors |-> secondary,
     confidence |-> 9, semantic_tags |-> <<"docker">>, generated_title |-> "auto"]

\* An id no add has produced.
MissingId == <<"u1", None, "Z", 0>>

(***************************************************************************)
(* Spec: the service used by two users, one request at a time.             *)
(***************************************************************************)
Init ==
    /\ encryption \in BOOLEAN
    /\ store = EmptyDict
    /\ InitBase

\* The add requests of this specification: (content, project_id, memory_types).
AddRequests == {<<"A", None, <<>>>>, <<"B", "p1", <<"note">>>>}

AddAny ==
    \E req \in AddRequests, user_id \in Users, dbOk, encOk, upsertOk \in BOOLEAN :
        /\ Cardinality(DOMAIN store) < MaxRecords
        /\ Add(None, req[1], user_id, req[2], None, req[3], FALSE, NoTime,
               EmptyDict, Classification("semantic", <<>>), "e1", "n1",
               dbOk, encOk, upsertOk)

\* Every record here is current, so both values of only_current give the
\* same answer; SpecTemporal searches with both.
SearchAny ==
    \E user_id \in Users, project_id \in {None, "p1"},
       sectors \in {<<>>, <<"episodic">>}, memory_types \in {<<>>, <<"note">>},
       only_current \in {TRUE}, limit \in {1, 10}, dbOk \in BOOLEAN :
        Search("e1", user_id, project_id, sectors, memory_types, only_current,
               limit, dbOk)

GetAllAny ==
    \E user_id \in Users, project_id \in {None, "p1"}, limit \in {1, 100},
       dbOk \in BOOLEAN :
        GetAll(user_id, project_id, limit, dbOk)

GetByIdAny ==
    \E memory_id \in DOMAIN store \cup {MissingId}, user_id \in Users,
       dbOk, retrieveOk \in BOOLEAN :
        GetById(memory_id, user_id, dbOk, retrieveOk)

GetMemoryRouteAny ==
    \E memory_id \in DOMAIN store \cup {MissingId}, caller \in Users :
        GetMemoryRoute(memory_id, caller)

RestartAny == \E master_key_set \in BOOLEAN : Restart(master_key_set)

Next ==
    \/ AddAny
    \/ SearchAny
    \/ GetAllAny
    \/ GetByIdAny
    \/ GetMemoryRouteAny

Spec == Init /\ [][Next]_vars

(***************************************************************************)
(* SpecTemporal: facts about named entities added over time, by plain add  *)
(* and by add_with_temporal, with and without a supersedes target.         *)
(***************************************************************************)
Entities == {"stack", "db"}

InitTemporal ==
    /\ encryption = FALSE
    /\ store = EmptyDict
    /\ InitBase

\* The add_with_temporal requests: (content, entity, valid_from, valid_until).
TemporalRequests == {<<"A", "stack", 0, NoTime>>, <<"B", "stack", NoTime, 9>>, <<"B", "db", NoTime, NoTime>>}

TemporalAddAny ==
    \E req \in TemporalRequests, user_id \in Users, supersedes \in {NoId, MissingId} \cup DOMAIN store, upsertOk \in BOOLEAN :
        /\ Cardinality(DOMAIN store) < MaxTemporalRecords
        /\ AddWithTemporal(None, req[1], user_id, req[2], req[3], req[4], supersedes, Classification("semantic", <<>>), "e1", "n1", TRUE, TRUE, upsertOk)

TemporalPlainAddAny ==
    \E content \in {"A", "B"}, user_id \in Users :
        /\ Cardinality(DOMAIN store) < MaxTemporalRecords
        /\ Add(None, content, user_id, None, None, <<>>, FALSE, NoTime, EmptyDict, Classification("semantic", <<>>), "e1", "n1", TRUE, TRUE, TRUE)

TemporalSearchAny ==
    \E user_id \in Users, only_current \in BOOLEAN :
        Search("e1", user_id, None, <<>>, <<>>, only_current, 10, TRUE)

TemporalTickAny == \E t \in {1} : Tick(t)

NextTemporal ==
    \/ TemporalAddAny
    \/ TemporalPlainAddAny
    \/ TemporalSearchAny
    \/ TemporalTickAny

SpecTemporal == InitTemporal /\ [][NextTemporal]_vars

(***************************************************************************)
(* SpecRace: add called by two worker processes at once, encryption on.    *)
(***************************************************************************)
InitRace ==
    /\ encryption = TRUE
    /\ store = EmptyDict
    /\ InitBase

RaceBeginAny ==
    \E w \in Workers, content \in {"A", "B"}, user_id \in Users :
        /\ Cardinality(DOMAIN store) < MaxRecords
        /\ AddBegin(w, None, content, user_id, Classification("semantic", <<>>), "e1")

RaceFinishAny ==
    \E w \in Workers, dbOk \in BOOLEAN :
        AddFinish(w, "n1", dbOk, TRUE, TRUE)

RaceDeactivateAny == \E user_id \in Users : DeactivateDek(user_id)

NextRace ==
    \/ RaceBeginAny
    \/ RaceFinishAny
    \/ RaceDeactivateAny

SpecRace == InitRace /\ [][NextRace]_vars

(***************************************************************************)
(* SpecLegacy: the service started on a collection that already holds a    *)
(* plaintext corpus; encrypted writes, reads, restarts with and without    *)
(* the master key, and key retirement follow.                              *)
(***************************************************************************)
InitLegacy ==
    /\ encryption \in BOOLEAN
    /\ store = LegacyCorpus
    /\ InitBase

LegacyAddAny ==
    \E user_id \in Users :
        /\ Cardinality(DOMAIN store) < Cardinality(DOMAIN LegacyCorpus) + MaxLegacyAdds
        /\ Add(None, "A", user_id, None, None, <<>>, FALSE, NoTime, EmptyDict, Classification("semantic", <<>>), "e1", "n1", TRUE, TRUE, TRUE)

LegacySearchAny ==
    \E user_id \in Users, dbOk \in BOOLEAN :
        Search("e1", user_id, None, <<>>, <<>>, TRUE, 1, dbOk)

LegacyGetAllAny ==
    \E user_id \in Users, dbOk \in BOOLEAN :
        GetAll(user_id, None, 2, dbOk)

LegacyGetByIdAny ==
    \E memory_id \in DOMAIN store, user_id \in Users, dbOk \in BOOLEAN :
        GetById(memory_id, user_id, dbOk, TRUE)

LegacyDeactivateAny == \E user_id \in Users : DeactivateDek(user_id)

NextLegacy ==
    \/ LegacyAddAny
    \/ LegacySearchAny
    \/ LegacyGetAllAny
    \/ LegacyGetByIdAny
    \/ LegacyDeactivateAny
    \/ RestartAny

SpecLegacy == InitLegacy /\ [][NextLegacy]_vars

(***************************************************************************)
(* SpecRank: one user's records of differing sector, age and direction,    *)
(* searched with and without requested sectors.                            *)
(***************************************************************************)
InitRank ==
    /\ encryption = FALSE
    /\ store = EmptyDict
    /\ InitBase

\* <<content, primary sector, embedding>>
RankRequests == {<<"A", "episodic", "e1">>, <<"B", "semantic", "e2">>, <<"A+", "procedural", "e1">>}

RankAddAny ==
    \E r \in RankRequests :
        /\ Cardinality(DOMAIN store) < MaxRankRecords
        /\ Add(None, r[1], "u1", None, None, <<>>, FALSE, NoTime, EmptyDict, Classification(r[2], <<>>), r[3], "n1", TRUE, TRUE, TRUE)

RankSearchAny ==
    \E sectors \in {<<>>, <<"semantic">>}, limit \in {1, 2} :
        Search("e1", "u1", None, sectors, <<>>, TRUE, limit, TRUE)

\* The clock moves on by a week, a month, a year.
RankTickAny == \E days \in {7, 30, 366} : Tick(days * TicksPerDay)

NextRank ==
    \/ RankAddAny
    \/ RankSearchAny
    \/ RankTickAny

SpecRank == InitRank /\ [][NextRank]_vars

(***************************************************************************)
(* SpecScore: one user's records with primary and secondary sectors, one   *)
(* of them read often before (access_count above 0, kept by another        *)
(* writer of the collection), searched for current records of any project  *)
(* and type, with and without requested sectors.                           *)
(***************************************************************************)
ScoreId == <<"u1", None, "hot", 0>>

ScorePoint == [user_id |-> "u1", title |-> "hot", content |-> "hot", is_encrypted |-> FALSE, project_id |-> "default", memory_types |-> <<"general">>, sector_primary |-> "semantic", sector_secondary |-> <<"procedural">>, temporal_is_current |-> TRUE, created_at |-> 0, access_count |-> 5, vector |-> "e1"]

InitScore ==
    /\ encryption = FALSE
    /\ store = (ScoreId :> ScorePoint)
    /\ InitBase

\* <<content, primary sector, secondary sectors, embedding>>
ScoreRequests == {<<"A", "episodic", <<"semantic">>, "e1">>, <<"B", "procedural", <<>>, "e2">>}

ScoreAddAny ==
    \E r \in ScoreRequests :
        /\ Cardinality(DOMAIN store) < 1 + MaxScoreAdds
        /\ Add(None, r[1], "u1", None, None, <<>>, FALSE, NoTime, EmptyDict, Classification(r[2], r[3]), r[4], "n1", TRUE, TRUE, TRUE)

ScoreSearchAny ==
    \E sectors \in {<<>>, <<"semantic">>, <<"emotional", "procedural">>}, limit \in {1, 2} :
        Search("e1", "u1", None, sectors, <<>>, TRUE, limit, TRUE)

ScoreTickAny == \E days \in {7, 366} : Tick(days * TicksPerDay)

NextScore ==
    \/ ScoreAddAny
    \/ ScoreSearchAny
    \/ ScoreTickAny

SpecScore == InitScore /\ [][NextScore]_vars

(***************************************************************************)
(* SpecAdd: add called while the services it depends on answer well or     *)
(* badly: the LLM, the embedder, the key database, the cipher, the vector  *)
(* store.                                                                  *)
(***************************************************************************)
InitAdd ==
    /\ encryption \in BOOLEAN
    /\ store = EmptyDict
    /\ InitBase

\* The generated text of a well-formed answer.
GoodClassification == JDict([primary_sector |-> JStr("procedural"), secondary_sectors |-> JList(<<"semantic">>), confidence |-> JNum(9), semantic_tags |-> JList(<<"docker", "deploy">>), generated_title |-> JStr("Docker workflow")])

\* Out-of-range and surplus values: an unknown primary, four secondaries of
\* which one unknown, a confidence above 1, eleven tags, no title.
WildClassification == JDict([primary_sector |-> JStr("bogus"), secondary_sectors |-> JList(<<"bogus", "procedural", "semantic", "episodic">>), confidence |-> JNum(15), semantic_tags |-> JList(<<"t1", "t2", "t3", "t4", "t5", "t6", "t7", "t8", "t9", "t10", "t11">>)])

\* Secondaries that repeat the primary and each other; no tags.
RepeatingClassification == JDict([primary_sector |-> JStr("semantic"), secondary_sectors |-> JList(<<"semantic", "emotional", "emotional">>), confidence |-> JNum(-3), semantic_tags |-> JList(<<>>)])

Generated(value) == LlmResponse(200, JsonText(JDict([response |-> JsonText(value)])))

LlmOk == Generated(GoodClassification)

\* What the LLM endpoint may answer.
LlmAnswers ==
    << LlmOk,
       LlmRaises,
       LlmResponse(500, NotJsonText),
       LlmResponse(500, JsonText(JDict([error |-> JStr("internal error")]))),
       LlmResponse(200, NotJsonText),
       LlmResponse(200, JsonText(JList(<<>>))),
       LlmResponse(200, JsonText(JDict([response |-> NotJsonText]))),
       Generated(JList(<<>>)),
       Generated(JDict(EmptyDict)),
       Generated(WildClassification),
       Generated(RepeatingClassification),
       Generated(JDict([primary_sector |-> JList(<<"semantic">>)])),
       Generated(JDict([primary_sector |-> JStr("episodic"), secondary_sectors |-> JNull])),
       Generated(JDict([primary_sector |-> JStr("episodic"), confidence |-> JStr("high")])) >>

EmbOk == LlmResponse(200, JsonText(JDict([embedding |-> "e1"])))

\* What the embedding endpoint may answer.
EmbAnswers ==
    << EmbOk,
       LlmRaises,
       LlmResponse(500, NotJsonText),
       LlmResponse(500, JsonText(JDict([error |-> JStr("model not found")]))),
       LlmResponse(200, JsonText(JList(<<>>))),
       LlmResponse(200, JsonText(JDict([embedding |-> "empty"]))),
       LlmResponse(200, JsonText(JDict([embedding |-> "null"]))) >>

CallLlmAny ==
    \E content \in Texts, i \in DOMAIN LlmAnswers :
        \E keywords \in ExtractBasicKeywords(content) :
            /\ Cardinality(DOMAIN store) < MaxCallRecords
            /\ AddCall("w1", None, content, "u1", LlmAnswers[i], keywords, EmbOk, "n1", TRUE, TRUE, TRUE)

CallEmbAny ==
    \E content \in {"Postgres listens on 5432"}, i \in DOMAIN EmbAnswers :
        \E keywords \in ExtractBasicKeywords(content) :
            /\ Cardinality(DOMAIN store) < MaxCallRecords
            /\ AddCall("w1", None, content, "u1", LlmOk, keywords, EmbAnswers[i], "n1", TRUE, TRUE, TRUE)

CallInfraAny ==
    \E content \in {"Postgres listens on 5432"}, dbOk \in BOOLEAN, encOk \in BOOLEAN, upsertOk \in BOOLEAN :
        \E keywords \in ExtractBasicKeywords(content) :
            /\ Cardinality(DOMAIN store) < MaxCallRecords
            /\ AddCall("w1", None, content, "u1", LlmOk, keywords, EmbOk, "n1", dbOk, encOk, upsertOk)

NextAdd ==
    \/ CallLlmAny
    \/ CallEmbAny
    \/ CallInfraAny

SpecAdd == InitAdd /\ [][NextAdd]_vars

(***************************************************************************)
(* The background tasks of memory_tasks.py.  They work on the collection   *)
(* through the service's client; the payload fields they read are          *)
(* created_at, score, importance and metadata.is_pinned / is_important.    *)
(* Scores are in thousandths.  The stores here hold fewer points than one  *)
(* page or one delete batch (100) or the result sample (5), so a scan is   *)
(* one page, a deletion one batch, and the sample holds every candidate.   *)
(***************************************************************************)
ScoreThreshold == 300

\* The scroll filter: created_at < cutoff and score < 0.3.  A point without
\* the field does not satisfy a range condition on it.
MatchesCleanupFilter(payload, cutoff_date) ==
    /\ "created_at" \in DOMAIN payload
    /\ payload.created_at < cutoff_date
    /\ "score" \in DOMAIN payload
    /\ payload.score < ScoreThreshold

\* A check that forgets is_important.
NotProtectedPinnedOnly(payload) ==
    LET metadata == Get(payload, "metadata", EmptyDict)
    IN  ~Get(metadata, "is_pinned", FALSE)

\* not metadata.get("is_pinned") and not metadata.get("is_important")
NotProtected(payload) ==
    LET metadata == Get(payload, "metadata", EmptyDict)
    IN  ~Get(metadata, "is_pinned", FALSE) /\ ~Get(metadata, "is_important", FALSE)

MemoriesToClean(points, days, t) ==
    {id \in DOMAIN points :
        /\ MatchesCleanupFilter(points[id], t - days * TicksPerDay)
        /\ NotProtected(points[id])}

\* A task that deletes on a dry run too.
DeletesAlways(dry_run, memories_to_clean) == memories_to_clean # {}

\* if not dry_run and memories_to_clean
Deletes(dry_run, memories_to_clean) == ~dry_run /\ memories_to_clean # {}

TaskRan(t) == [pc |-> "done", at |-> t]

\* cleanup_old_memories.  scanOk: building the filter and every scroll call
\* succeed; deleteOk: client.delete succeeds.
CleanupOldMemories(days, dry_run, scanOk, deleteOk) ==
    LET memories_to_clean == MemoriesToClean(store, days, now)
        deleting == Deletes(dry_run, memories_to_clean)
        total_found == Cardinality(memories_to_clean)
    IN  /\ IF scanOk /\ (deleting => deleteOk)
           THEN /\ store' = IF deleting
                            THEN [id \in DOMAIN store \ memories_to_clean |-> store[id]]
                            ELSE store
                /\ resp' = [op |-> "cleanup", success |-> TRUE, dry_run |-> dry_run,
                            days_threshold |-> days, score_threshold |-> ScoreThreshold,
                            total_found |-> total_found,
                            deleted_count |-> IF ~dry_run /\ deleting THEN total_found ELSE 0,
                            sample |-> memories_to_clean]
           ELSE /\ store' = store
                /\ resp' = [op |-> "cleanup", success |-> FALSE, dry_run |-> dry_run]
        /\ workers' = [workers EXCEPT !["w1"] = TaskRan(now)]
        /\ UNCHANGED <<encryption, dekRows, nextDek, now>>

\* The importance tier that selects the decay.
ImportanceLevel(importance) ==
    IF importance >= 5 THEN "critical"
    ELSE IF importance >= 4 THEN "high"
    ELSE IF importance >= 3 THEN "medium"
    ELSE IF importance >= 2 THEN "low"
    ELSE "trivial"

\* calculate_recency(created_at, None, importance_level): it decays with the
\* age of the record, the slower the higher the tier.
CalculateRecency(created_at, importance_level, t) ==
    LET days_old == (t - created_at) \div TicksPerDay
        per_day == CASE importance_level = "critical" -> 0
                     [] importance_level = "high" -> 1
                     [] importance_level = "medium" -> 2
                     [] importance_level = "low" -> 4
                     [] OTHER -> 8
    IN  Max(0, 1000 - days_old * per_day)

\* calculate_memory_score(ScoringFactors(importance, recency, frequency=0.1,
\* relevance=0.5, category_boost=1.0, user_interaction=0.5)).
CalculateMemoryScore(importance, recency) ==
    (Min(importance, 5) * 200 * 30 + recency * 30 + 100 * 10 + 500 * 20 + 500 * 10) \div 100

\* A task that compares with the default score and not with the stored one.
CurrentScoreDefault(payload) == 500

\* payload.get("score", 0.5)
CurrentScore(payload) == Get(payload, "score", 500)

\* The points the loop reaches the threshold test for: those with a
\* created_at whose importance can be compared with a number.
Processed(points) ==
    {id \in DOMAIN points :
        /\ "created_at" \in DOMAIN points[id]
        /\ Get(points[id], "importance", JNum(3)).t = "num"}

ItemErrors(points) ==
    {id \in DOMAIN points :
        /\ "created_at" \in DOMAIN points[id]
        /\ Get(points[id], "importance", JNum(3)).t # "num"}

NewScore(payload, t) ==
    LET importance == Get(payload, "importance", JNum(3)).v
    IN  CalculateMemoryScore(importance, CalculateRecency(payload.created_at, ImportanceLevel(importance), t))

Abs(x) == IF x < 0 THEN -x ELSE x

\* abs(new_score - current_score) > 0.01
PointsToUpdate(points, t) ==
    {id \in Processed(points) : Abs(NewScore(points[id], t) - CurrentScore(points[id])) > 10}

\* client.set_payload merges the two fields into the stored payload.
SetPayload(payload, new_score, t) ==
    [score |-> new_score, score_updated_at |-> t] @@ payload

\* recalculate_memory_scores.  ok: every scroll and set_payload call
\* succeeds; otherwise the points of `written` were updated before the call
\* that raised.
RecalculateMemoryScores(ok, written) ==
    LET points_to_update == PointsToUpdate(store, now)
        total_processed == Cardinality(Processed(store))
        updated_count == Cardinality(points_to_update)
        done == IF ok THEN points_to_update ELSE written
    IN  /\ written \subseteq points_to_update
        /\ ok => written = points_to_update
        /\ store' = [id \in DOMAIN store |->
                        IF id \in done THEN SetPayload(store[id], NewScore(store[id], now), now)
                        ELSE store[id]]
        /\ resp' = IF ok
                   THEN [op |-> "recalculate", success |-> TRUE,
                         total_processed |-> total_processed,
                         updated_count |-> updated_count,
                         unchanged_count |-> total_processed - updated_count,
                         error_count |-> Cardinality(ItemErrors(store))]
                   ELSE [op |-> "recalculate", success |-> FALSE]
        /\ workers' = [workers EXCEPT !["w1"] = TaskRan(now)]
        /\ UNCHANGED <<encryption, dekRows, nextDek, now>>

(***************************************************************************)
(* SpecTasks: the two maintenance tasks run over a collection of points,   *)
(* while days pass.  The clock starts at day 400.                          *)
(***************************************************************************)
TaskPoint(created_at, score) == [user_id |-> "u1", content |-> "A", created_at |-> created_at, score |-> score]

\* "old", "pinned", "vital", "plainmd", "valued" were created on day 0, "young" on day 390, "edge" on day 35
\* (365 days before the start), "undated" has no created_at, "unscored" no
\* score.
TaskCorpus ==
    [old      |-> TaskPoint(0, 200),
     pinned   |-> [metadata |-> [is_pinned |-> TRUE]] @@ TaskPoint(0, 200),
     vital    |-> [metadata |-> [is_important |-> TRUE], importance |-> JNum(5)] @@ TaskPoint(0, 200),
     plainmd  |-> [metadata |-> [is_pinned |-> FALSE, source |-> "chat"], importance |-> JStr("high")] @@ TaskPoint(0, 250),
     young    |-> TaskPoint(390 * TicksPerDay, 200),
     edge     |-> TaskPoint(35 * TicksPerDay, 299),
     valued   |-> TaskPoint(0, 300),
     unscored |-> [user_id |-> "u1", content |-> "A", created_at |-> 0, importance |-> JNum(1)],
     undated  |-> [user_id |-> "u1", content |-> "A", score |-> 100]]

InitTasks ==
    /\ encryption = FALSE
    /\ \E S \in SUBSET DOMAIN TaskCorpus :
          /\ Cardinality(S) <= MaxTaskRecords
          /\ store = [id \in S |-> TaskCorpus[id]]
    /\ dekRows = EmptyDict
    /\ nextDek = 1
    /\ now = 400 * TicksPerDay
    /\ workers = [w \in Workers |-> Idle]
    /\ resp = [op |-> "none"]

CleanupAny ==
    \E days \in {7, 365}, dry_run \in BOOLEAN, scanOk \in BOOLEAN, deleteOk \in BOOLEAN :
        CleanupOldMemories(days, dry_run, scanOk, deleteOk)

RecalculateAny ==
    \E ok \in BOOLEAN, written \in SUBSET DOMAIN store :
        RecalculateMemoryScores(ok, written)

TasksTickAny == \E days \in {401} : Tick(days * TicksPerDay)

NextTasks ==
    \/ CleanupAny
    \/ RecalculateAny
    \/ TasksTickAny

SpecTasks == InitTasks /\ [][NextTasks]_vars

(***************************************************************************)
(* TemporalKnowledgeGraph.get_timeline and query_at_time.  Both read       *)
(* through MemoryService.search with the entity as the query text.         *)
(***************************************************************************)
\* period.to of the last entry: the literal "present".
Present == -2

\* mem["content"][:200] + "..."
Preview(content) == <<content, "...">>

\* r.get("temporal", {}).get("valid_from"): search copies the payload's
\* temporal_valid_from; a payload without it gives None.
HasValidFrom(r) == r.valid_from # NoTime

\* sorted(temporal_memories, key=valid_from): stable, earliest first.
RECURSIVE InsertAsc(_, _)
InsertAsc(sorted, x) ==
    IF sorted = <<>> THEN <<x>>
    ELSE IF Head(sorted).valid_from <= x.valid_from
    THEN <<Head(sorted)>> \o InsertAsc(Tail(sorted), x)
    ELSE <<x>> \o sorted

RECURSIVE SortByValidFrom(_)
SortByValidFrom(items) ==
    IF items = <<>> THEN <<>>
    ELSE InsertAsc(SortByValidFrom(SubSeq(items, 1, Len(items) - 1)),
                   items[Len(items)])

\* mem["temporal"].get("valid_until"): the temporal dictionary search
\* builds has the keys is_current and valid_from only.
TemporalOf(r) == [is_current |-> r.is_current, valid_from |-> r.valid_from]

PeriodEnd(timeline, i) ==
    LET valid_until == Get(TemporalOf(timeline[i]), "valid_until", NoTime)
    IN  IF valid_until # NoTime THEN valid_until
        ELSE IF i < Len(timeline) THEN timeline[i + 1].valid_from
        ELSE Present

\* The loop of get_timeline over the results of search.
TimelineView(results) ==
    LET timeline == SortByValidFrom(SelectSeq(results, HasValidFrom))
    IN  [i \in 1..Len(timeline) |->
            [memory_id |-> timeline[i].id,
             title |-> timeline[i].title,
             content |-> Preview(timeline[i].content),
             period |-> [from |-> timeline[i].valid_from, to |-> PeriodEnd(timeline, i)],
             is_current |-> timeline[i].is_current,
             sector |-> timeline[i].primary]]

NoMemory == <<>>

\* The loop of query_at_time: newest entry first, <<mem>> or <<>> for None.
RECURSIVE FirstValidAt(_, _, _)
FirstValidAt(timeline, i, timestamp) ==
    IF i = 0 THEN NoMemory
    ELSE IF /\ timeline[i].period.from <= timestamp
            /\ (timeline[i].period.to = Present \/ timeline[i].period.to >= timestamp)
    THEN <<timeline[i]>>
    ELSE FirstValidAt(timeline, i - 1, timestamp)

\* The embedding of the entity name, which search uses as its query.
EntityVector(entity) == "e1"

\* search(query=entity, user_id, project_id, only_current=False, limit=50)
\* as get_timeline calls it, followed by `then`, which sets the response.
TimelineSearch(entity, user_id, project_id, dbOk, then(_)) ==
    \E answer \in AnnAnswers(store, EntityVector(entity), user_id, project_id, FALSE, 50 * 2) :
        LET hits == SelectSeq(answer, LAMBDA id :
                                  /\ CalculateSectorBoost(store[id], <<>>) # 0
                                  /\ PassesTypes(store[id], <<>>))
            payloads == [i \in 1..Len(hits) |-> store[hits[i]]]
            dec == DecryptEach(payloads, user_id, encryption, dekRows, nextDek, dbOk)
            scored_results == ScoredResults(store, hits, EntityVector(entity), <<>>,
                                            dec.contents, now)
        IN  /\ dec.fresh <= MaxDeks + 1
            /\ dekRows' = dec.rows
            /\ nextDek' = dec.fresh
            /\ then(TimelineView(Take(SortByScoreDesc(scored_results), 50)))
            /\ UNCHANGED <<encryption, store, now, workers>>

GetTimeline(entity, user_id, project_id, dbOk) ==
    LET then(timeline) == resp' = [op |-> "get_timeline", entity |-> entity,
                                   user_id |-> user_id, timeline |-> timeline]
    IN  TimelineSearch(entity, user_id, project_id, dbOk, then)

QueryAtTime(entity, timestamp, user_id, project_id, dbOk) ==
    LET then(timeline) == resp' = [op |-> "query_at_time", entity |-> entity,
                                   user_id |-> user_id, timestamp |-> timestamp,
                                   timeline |-> timeline,
                                   result |-> FirstValidAt(timeline, Len(timeline), timestamp)]
    IN  TimelineSearch(entity, user_id, project_id, dbOk, then)

(***************************************************************************)
(* SpecTimeline: facts about two entities are recorded with the validity   *)
(* the caller states, some superseding others, and the timeline is read.   *)
(* The clock starts at 10; the stated validity starts lie before it.       *)
(***************************************************************************)
InitTimeline ==
    /\ encryption = FALSE
    /\ store = EmptyDict
    /\ dekRows = EmptyDict
    /\ nextDek = 1
    /\ now = 10
    /\ workers = [w \in Workers |-> Idle]
    /\ resp = [op |-> "none"]

\* The add_with_temporal requests: (content, entity, valid_from, valid_until).
TimelineRequests == {<<"Vue 2", "stack", 2, NoTime>>, <<"Vue 3", "stack", 6, NoTime>>, <<"jQuery", "stack", 1, 2>>, <<"Postgres", "db", 4, NoTime>>}

TimelineAddAny ==
    \E req \in TimelineRequests, supersedes \in {NoId} \cup DOMAIN store :
        /\ Cardinality(DOMAIN store) < MaxTimelineRecords
        /\ \A id \in DOMAIN store : store[id].content # req[1]
        /\ AddWithTemporal(None, req[1], "u1", req[2], req[3], req[4], supersedes, Classification("semantic", <<>>), "e1", "n1", TRUE, TRUE, TRUE)

GetTimelineAny ==
    \E entity \in Entities : GetTimeline(entity, "u1", None, TRUE)

QueryAtTimeAny ==
    \E entity \in Entities, timestamp \in {1, 4, 12} : QueryAtTime(entity, timestamp, "u1", None, TRUE)

TimelineTickAny == \E t \in {11} : Tick(t)

NextTimeline ==
    \/ TimelineAddAny
    \/ GetTimelineAny
    \/ QueryAtTimeAny
    \/ TimelineTickAny

SpecTimeline == InitTimeline /\ [][NextTimeline]_vars

(***************************************************************************)
(* The retried tasks of memory_tasks.py: process_memory,                   *)
(* update_memory_task and search_memory, each declared with                *)
(* @shared_task(bind=True, max_retries=3) and ending every exception with  *)
(* raise self.retry(exc=exc, countdown=10).  A worker record holds the     *)
(* task request: its name and arguments, request.retries, the countdown of *)
(* the pending retry, and how often the body has run.                      *)
(***************************************************************************)
MaxRetriesOfTask == 3

RetryCountdown == 10

TaskRequest(task, input) ==
    [pc |-> "queued", task |-> task, input |-> input, retries |-> 0, countdown |-> 0, runs |-> 0]

\* apply_async: the task is queued for a worker.
Delay(w, task, input) ==
    /\ workers[w].pc = "idle"
    /\ workers' = [workers EXCEPT ![w] = TaskRequest(task, input)]
    /\ resp' = [op |-> "delay", task |-> task]
    /\ UNCHANGED <<encryption, store, dekRows, nextDek, now>>

\* A retry that allows one retry more than max_retries.
SelfRetryOneMore(request) ==
    IF request.retries <= MaxRetriesOfTask
    THEN [request EXCEPT !.pc = "queued", !.retries = @ + 1,
                         !.countdown = RetryCountdown, !.runs = @ + 1]
    ELSE [request EXCEPT !.pc = "failed", !.runs = @ + 1]

\* self.retry(exc=exc, countdown=10): while request.retries < max_retries
\* the task is queued again with retries + 1; after that the exception is
\* raised and the task ends as failed.
SelfRetry(request) ==
    IF request.retries < MaxRetriesOfTask
    THEN [request EXCEPT !.pc = "queued", !.retries = @ + 1,
                         !.countdown = RetryCountdown, !.runs = @ + 1]
    ELSE [request EXCEPT !.pc = "failed", !.runs = @ + 1]

\* A task that returns: the request ends with the returned dictionary.
Returned(request, result) ==
    [pc |-> "done", task |-> request.task, input |-> request.input,
     retries |-> request.retries, countdown |-> request.countdown,
     runs |-> request.runs + 1, result |-> result]

\* service.create_memory_sync(user_id, content, project_id, metadata)
CreateMemorySync(points, user_id, content, t) ==
    Upsert(points, <<user_id, content, t>>,
           [user_id |-> user_id, content |-> content, created_at |-> t, score |-> 500])

\* One run of the body of process_memory.  serviceOk: _get_memory_service
\* returns; callOk: the service call returns.
ProcessMemory(w, serviceOk, callOk) ==
    LET request == workers[w]
        user_id == Get(request.input, "user_id", None)
        content == Get(request.input, "content", None)
    IN  /\ request.pc = "queued" /\ request.task = "process_memory"
        /\ IF ~serviceOk
           THEN /\ workers' = [workers EXCEPT ![w] = SelfRetry(request)]
                /\ store' = store
           ELSE IF ~Truthy(user_id) \/ ~Truthy(content)
           THEN /\ workers' = [workers EXCEPT ![w] = Returned(request, [success |-> FALSE])]
                /\ store' = store
           ELSE IF ~callOk
           THEN /\ workers' = [workers EXCEPT ![w] = SelfRetry(request)]
                /\ store' = store
           ELSE /\ workers' = [workers EXCEPT ![w] = Returned(request, [success |-> TRUE])]
                /\ store' = CreateMemorySync(store, user_id, content, now)
        /\ resp' = [op |-> "process_memory", pc |-> workers'[w].pc, service_ok |-> serviceOk]
        /\ UNCHANGED <<encryption, dekRows, nextDek, now>>

\* service.update_memory(memory_id, user_id, updates)
UpdateMemory(points, memory_id, t) ==
    [points EXCEPT ![memory_id] = [updated_at |-> t] @@ points[memory_id]]

\* One run of the body of update_memory_task.
UpdateMemoryTask(w, serviceOk, callOk) ==
    LET request == workers[w]
        memory_id == request.input.memory_id
        found == memory_id \in DOMAIN store
    IN  /\ request.pc = "queued" /\ request.task = "update_memory_task"
        /\ IF ~serviceOk \/ ~callOk
           THEN /\ workers' = [workers EXCEPT ![w] = SelfRetry(request)]
                /\ store' = store
           ELSE IF ~found
           THEN /\ workers' = [workers EXCEPT ![w] = Returned(request, [success |-> FALSE])]
                /\ store' = store
           ELSE /\ workers' = [workers EXCEPT ![w] = Returned(request, [success |-> TRUE])]
                /\ store' = UpdateMemory(store, memory_id, now)
        /\ resp' = [op |-> "update_memory_task", pc |-> workers'[w].pc, service_ok |-> serviceOk]
        /\ UNCHANGED <<encryption, dekRows, nextDek, now>>

\* One run of the body of search_memory.
SearchMemory(w, serviceOk, callOk) ==
    LET request == workers[w]
        user_id == Get(request.input, "user_id", None)
        query == Get(request.input, "query", None)
    IN  /\ request.pc = "queued" /\ request.task = "search_memory"
        /\ workers' = [workers EXCEPT ![w] =
              IF ~serviceOk THEN SelfRetry(request)
              ELSE IF ~Truthy(user_id) \/ ~Truthy(query)
              THEN Returned(request, [success |-> FALSE, results |-> {}])
              ELSE IF ~callOk THEN SelfRetry(request)
              ELSE Returned(request, [success |-> TRUE,
                                      results |-> {id \in DOMAIN store : store[id].user_id = user_id}])]
        /\ resp' = [op |-> "search_memory", pc |-> workers'[w].pc, service_ok |-> serviceOk]
        /\ UNCHANGED <<encryption, store, dekRows, nextDek, now>>

(***************************************************************************)
(* SpecRetry: two Celery workers each take one task request and run it     *)
(* until it returns or has used up its retries.                            *)
(***************************************************************************)
InitRetry ==
    /\ encryption = FALSE
    /\ store = EmptyDict
    /\ InitBase

ProcessInputs == {[user_id |-> "u1", content |-> "A"], [user_id |-> "u1"], [user_id |-> "", content |-> "A"]}

SearchInputs == {[user_id |-> "u1", query |-> "q"], [query |-> "q"]}

UpdateInputs == {[memory_id |-> <<"u1", "A", 0>>, user_id |-> "u1"], [memory_id |-> <<"u1", "A", 0>>]}

DelayAny ==
    \E w \in Workers :
        \/ \E input \in ProcessInputs : Delay(w, "process_memory", input)
        \/ \E input \in SearchInputs : Delay(w, "search_memory", input)
        \/ \E input \in UpdateInputs : Delay(w, "update_memory_task", input)

ProcessMemoryAny == \E w \in Workers, serviceOk, callOk \in BOOLEAN : ProcessMemory(w, serviceOk, callOk)

UpdateMemoryTaskAny == \E w \in Workers, serviceOk, callOk \in BOOLEAN : UpdateMemoryTask(w, serviceOk, callOk)

SearchMemoryAny == \E w \in Workers, serviceOk, callOk \in BOOLEAN : SearchMemory(w, serviceOk, callOk)

NextRetry ==
    \/ DelayAny
    \/ ProcessMemoryAny
    \/ UpdateMemoryTaskAny
    \/ SearchMemoryAny

SpecRetry == InitRetry /\ [][NextRetry]_vars

(***************************************************************************)
(* C1.  Every record returned by search or get_all for caller u is stored  *)
(* with user_id = u, whatever the optional filters.                        *)
(***************************************************************************)
C1_ReturnedIds == {resp.results[i].id : i \in DOMAIN resp.results}

C1_ReadsReturnOnlyCallersRecords ==
    resp.op \in {"search", "get_all"} =>
        \A id \in C1_ReturnedIds :
            id \in DOMAIN store /\ store[id].user_id = resp.user_id

\* A search answers with a record while another user's record is stored.
C1_Witness ==
    /\ resp.op = "search"
    /\ Len(resp.results) >= 1
    /\ \E id \in DOMAIN store : store[id].user_id # resp.user_id

(***************************************************************************)
(* C2.  A by-id lookup returns the record to its owner, and to any other   *)
(* caller the NotFound outcome of an id that does not exist, never an      *)
(* access-denied outcome.  Stated of both by-id lookups: get_by_id and the *)
(* route GET /v1/memories/{memory_id}.                                     *)
(***************************************************************************)
C2_OwnedBy(memory_id, user_id) ==
    memory_id \in DOMAIN store /\ Get(store[memory_id], "user_id", None) = user_id

C2_ServiceLookup ==
    (resp.op = "get_by_id" /\ resp.retrieve_ok) =>
        IF C2_OwnedBy(resp.id, resp.user_id)
        THEN resp.result.found /\ resp.result.id = resp.id
        ELSE resp.result = NotFound

C2_RouteLookup ==
    resp.op = "GET /memories/{id}" =>
        IF C2_OwnedBy(resp.id, resp.user_id) THEN resp.status = 200
        ELSE resp.status = 404

C2_ByIdLookup == C2_ServiceLookup /\ C2_RouteLookup

(***************************************************************************)
(* C5.  The payload stored for a record with is_encrypted = true holds     *)
(* the plaintext content in no field.                                      *)
(***************************************************************************)
C5_NoPlaintextStored ==
    \A id \in DOMAIN store :
        LET payload == store[id] IN
        (Get(payload, "is_encrypted", FALSE) /\ "encrypted_content" \in DOMAIN payload) =>
            ("content" \in DOMAIN payload =>
                payload.content # b64decode(payload.encrypted_content).pt)

(***************************************************************************)
(* C7.  A successful add of content c returning id i, followed by          *)
(* get_by_id(i, u) by the same user, returns content c (the store and the  *)
(* registry answering), with encryption enabled or disabled.               *)
(***************************************************************************)
C7_AddThenGetById ==
    [][(/\ resp.op = "add" /\ resp.ok
        /\ resp'.op = "get_by_id"
        /\ resp'.id = resp.id /\ resp'.user_id = resp.user_id
        /\ resp'.retrieve_ok /\ resp'.db_ok)
       => (resp'.result.found /\ resp'.result.content = resp.content)]_vars

\* An encrypted record is read back by its owner.
C7_Witness ==
    /\ resp.op = "get_by_id"
    /\ resp.result.found
    /\ resp.result.is_encrypted
    /\ resp.result.content \in Contents

(***************************************************************************)
(* C3.  For each pair (user_id, temporal_entity) at most one stored record *)
(* has temporal_is_current = true.                                         *)
(***************************************************************************)
C3_EntityOf(payload) == Get(Get(payload, "extra_metadata", EmptyDict), "temporal_entity", None)

C3_CurrentOf(user_id, entity) ==
    {id \in DOMAIN store :
        /\ store[id].user_id = user_id
        /\ C3_EntityOf(store[id]) = entity
        /\ store[id].temporal_is_current}

C3_AtMostOneCurrent ==
    \A user_id \in Users, entity \in Entities :
        Cardinality(C3_CurrentOf(user_id, entity)) <= 1

(***************************************************************************)
(* C4.  When add_with_temporal(..., supersedes = A) has completed and A is *)
(* an existing record, A has temporal_is_current = false and               *)
(* A.superseded_by is the id of the new record.                            *)
(***************************************************************************)
C4_Supersedes(payload) == Get(Get(payload, "extra_metadata", EmptyDict), "supersedes", NoId)

C4_SupersededBy(payload) == Get(Get(payload, "extra_metadata", EmptyDict), "superseded_by", NoId)

C4_PredecessorRetired ==
    (resp.op = "add" /\ resp.ok) =>
        LET A == C4_Supersedes(store[resp.id]) IN
        (A # NoId /\ A # resp.id /\ A \in DOMAIN store) =>
            /\ ~store[A].temporal_is_current
            /\ C4_SupersededBy(store[A]) = resp.id

(***************************************************************************)
(* C6.  When concurrent first encrypted writes of one user (each found no  *)
(* DEK row) have all finished, the registry holds one active row for the   *)
(* user, and no call failed or was downgraded to plaintext because of the  *)
(* contention.                                                             *)
(***************************************************************************)
C6_FirstWriteDone(w, user_id) ==
    /\ workers[w].pc = "done"
    /\ workers[w].user_id = user_id
    /\ workers[w].first_write
    /\ workers[w].faultless

C6_ConcurrentFirstWrites ==
    \A user_id \in Users :
        (\A w \in Workers : C6_FirstWriteDone(w, user_id)) =>
            /\ user_id \in DOMAIN dekRows
            /\ \A w \in Workers : workers[w].is_encrypted

(***************************************************************************)
(* C8.  A stored record with is_encrypted = false, or with no is_encrypted *)
(* field, is returned with its stored plaintext content by get_by_id,      *)
(* get_all and search, after any number of later encrypted adds by any     *)
(* user; and a read that returns only such records leaves the DEK registry *)
(* and the DEK source untouched (it asks for no DEK).                      *)
(***************************************************************************)
C8_Reads == {"search", "get_all", "get_by_id"}

C8_Returned(r) ==
    IF r.op \in {"search", "get_all"} THEN {r.results[i] : i \in DOMAIN r.results}
    ELSE IF r.op = "get_by_id" /\ r.result.found THEN {r.result}
    ELSE {}

C8_IsPlain(payload) == ~Get(payload, "is_encrypted", FALSE)

\* The records a read decrypted: search decrypts each of its candidates.
C8_Decrypted(r) ==
    IF r.op = "search" THEN {r.candidates[i] : i \in DOMAIN r.candidates}
    ELSE C8_Returned(r)

C8_PlainRecordsReadable ==
    [][resp'.op \in C8_Reads =>
          /\ \A item \in C8_Decrypted(resp') :
                C8_IsPlain(store[item.id]) =>
                    item.content = Get(store[item.id], "content", "")
          /\ (\A item \in C8_Decrypted(resp') : C8_IsPlain(store[item.id])) =>
                (dekRows' = dekRows /\ nextDek' = nextDek)]_vars

\* A read returned the record that has no is_encrypted field with its stored
\* content, although the store holds an encrypted record of the same user and
\* no DEK could be had (the registry was failing, or encryption was off).
C8_Witness ==
    /\ resp.op \in C8_Reads
    /\ \E item \in C8_Returned(resp) :
          /\ item.id = LegacyId(1)
          /\ item.content = LegacyPlain.content
    /\ \E id \in DOMAIN store :
          /\ store[id].user_id = resp.user_id
          /\ Get(store[id], "is_encrypted", FALSE)
          /\ "content_nonce" \in DOMAIN store[id]
    /\ ~resp.db_ok \/ ~encryption

(***************************************************************************)
(* C9.  A read that meets a record with is_encrypted = true returns for it *)
(* "[Encrypted content - unable to decrypt]" when the record's ciphertext  *)
(* or nonce is missing or no DEK can be had, and otherwise the decrypted   *)
(* content or "[Encrypted content - decryption failed]".                   *)
(***************************************************************************)
C9_Incomplete(payload) ==
    \/ "encrypted_content" \notin DOMAIN payload
    \/ "content_nonce" \notin DOMAIN payload

C9_SentinelForUndecryptable ==
    resp.op \in C8_Reads =>
        \A item \in C8_Returned(resp) :
            LET payload == store[item.id] IN
            Get(payload, "is_encrypted", FALSE) =>
                IF C9_Incomplete(payload) \/ ~encryption \/ ~resp.db_ok
                THEN item.content = UnableToDecrypt
                ELSE item.content \in {b64decode(payload.encrypted_content).pt,
                                       DecryptionFailed}

(***************************************************************************)
(* C10.  The list search returns is sorted by final score, highest first,  *)
(* has at most `limit` entries, and holds the highest-scoring of the       *)
(* candidates that passed the filters: no candidate is returned twice, as  *)
(* many are returned as the limit allows, and no candidate left out scores *)
(* higher than one returned.                                               *)
(***************************************************************************)
C10_SortedTopLimit ==
    resp.op = "search" =>
        LET results == resp.results
            returned == Range(results)
            candidates == Range(resp.candidates)
        IN  /\ Len(results) <= resp.limit
            /\ \A i, j \in DOMAIN results : i < j => results[i].score >= results[j].score
            /\ returned \subseteq candidates
            /\ Cardinality(returned) = Len(results)
            /\ Len(results) = Min(resp.limit, Len(resp.candidates))
            /\ \A c \in candidates \ returned : \A r \in returned : c.score <= r.score

\* A search cut three candidates down to two, and the first it returned was
\* not the first the store answered: the rerank changed the order.
C10_Witness ==
    /\ resp.op = "search"
    /\ Len(resp.candidates) > resp.limit
    /\ Len(resp.results) = 2
    /\ resp.results[1].id # resp.candidates[1].id
    /\ resp.results[1].score > resp.candidates[1].score
    /\ resp.results[1].score > resp.results[2].score

(***************************************************************************)
(* C11.  The score of every result search returns equals                   *)
(* vector_similarity x sector_boost x time_boost x access_boost, with      *)
(* access_boost = min(1.0 + 0.02 * access_count, 1.20) taken from the      *)
(* record's stored access_count, whatever that count is.                   *)
(* (Scores are in 1/10000, the access boost in hundredths.)                *)
(***************************************************************************)
C11_ScoreHasAccessBoost ==
    [][(resp'.op = "search" /\ now' = now) =>
          \A i \in DOMAIN resp'.results :
              LET item == resp'.results[i]
                  payload == store'[item.id]
              IN  item.score * 100 =
                      Cosine(resp'.query_vector, payload.vector)
                      * CalculateSectorBoost(payload, resp'.sectors)
                      * CalculateTimeBoost(Get(payload, "created_at", NoTime), now')
                      * CalculateAccessBoost(Get(payload, "access_count", 0))]_vars

(***************************************************************************)
(* C12.  A search with a non-empty sectors list drops no candidate because *)
(* of its sectors: every current record of the caller is a candidate       *)
(* whenever the store's answer (2 * limit points) has room for all of      *)
(* them, and a candidate's score is similarity x time boost x 1.20 when    *)
(* its primary sector is listed, x 1.10 when a secondary sector is,        *)
(* x 0.80 otherwise; with an empty list the factor is 1.0.                 *)
(***************************************************************************)
C12_Factor(payload, sectors) ==
    IF sectors = <<>> THEN 10
    ELSE IF payload.sector_primary \in Range(sectors) THEN 12
    ELSE IF Range(payload.sector_secondary) \cap Range(sectors) # {} THEN 11
    ELSE 8

C12_Current(user_id) ==
    {id \in DOMAIN store' : store'[id].user_id = user_id /\ store'[id].temporal_is_current}

C13_ClassificationWellFormed ==
    \A id \in DOMAIN store :
        LET payload == store[id] IN
        /\ payload.sector_primary \in Sectors
        /\ \A i \in DOMAIN payload.sector_secondary :
              /\ payload.sector_secondary[i] \in Sectors
              /\ payload.sector_secondary[i] # payload.sector_primary
        /\ Len(payload.sector_secondary) <= 2
        /\ Len(payload.semantic_tags) <= 10

\* A record was written from the answer with an unknown primary sector, four
\* secondary sectors and eleven tags: it holds two secondaries and ten tags.
C13_Witness ==
    /\ workers["w1"].pc = "done"
    /\ workers["w1"].llm = Generated(WildClassification)
    /\ resp.ok
    /\ store[resp.id].sector_primary = "semantic"
    /\ store[resp.id].sector_secondary = <<"procedural", "episodic">>
    /\ Len(store[resp.id].semantic_tags) = 10

(***************************************************************************)
(* C14.  When the LLM call fails during add (connection error or timeout,  *)
(* an HTTP error status with or without a JSON body, or a body that is not *)
(* valid JSON), add succeeds and the record's sector_primary is the sector *)
(* of the first keyword group found in the content (procedural, emotional, *)
(* episodic, reflective, else semantic), with confidence 0.5.              *)
(***************************************************************************)
C14_LlmFailed(llm) ==
    \/ llm.kind = "raise"
    \/ llm.kind = "response" /\ (llm.status >= 400 \/ ~llm.body.valid)

\* The sector the keyword rules give each text.
C14_KeywordSector(content) ==
    CASE content = "Step 1: install the agent" -> "procedural"
      [] content = "We discussed how to deploy" -> "procedural"
      [] content = "I love the new dashboard" -> "emotional"
      [] content = "It is unlikely to matter" -> "emotional"
      [] content = "Yesterday we should meet" -> "episodic"
      [] content = "You should cache results" -> "reflective"
      [] OTHER -> "semantic"

C14_LlmFailureFallsBack ==
    LET w == workers["w1"] IN
    (w.pc = "done" /\ C14_LlmFailed(w.llm) /\ w.emb = EmbOk /\ w.upsert_ok) =>
        /\ resp.ok
        /\ store[resp.id].sector_primary = C14_KeywordSector(w.content)
        /\ store[resp.id].sector_confidence = 5

(***************************************************************************)
(* C15.  When the embedding call fails during add (exception or timeout,   *)
(* error response, or a response without a usable embedding), add writes   *)
(* the record with the all-zero vector of 1024 components; and every       *)
(* stored vector has 1024 components.                                      *)
(***************************************************************************)
C15_EmbedFailed(emb) ==
    \/ emb.kind = "raise"
    \/ emb.kind = "response" /\ (emb.status >= 400 \/ ~emb.body.valid)
    \/ emb.kind = "response" /\ emb.body.valid /\
           (emb.body.value.t # "dict"
            \/ Get(emb.body.value.v, "embedding", "null") \in {"empty", "null"})

C15_EmbedFailureStoresZeroVector ==
    LET w == workers["w1"] IN
    /\ (w.pc = "done" /\ C15_EmbedFailed(w.emb) /\ w.upsert_ok) =>
          /\ resp.ok
          /\ store[resp.id].vector = "zero"
    /\ \A id \in DOMAIN store : VectorLen(store[id].vector) = 1024

(***************************************************************************)
(* C16.  When the vector-store upsert fails during add, add reports an     *)
(* error and the vector store and the DEK registry are as they were before *)
(* the call.                                                               *)
(***************************************************************************)
C16_FailedUpsertPersistsNothing ==
    [][(workers'["w1"].pc = "done" /\ ~workers'["w1"].upsert_ok) =>
          /\ ~resp'.ok
          /\ store' = store
          /\ dekRows' = dekRows]_vars

(***************************************************************************)
(* C17.  When encryption is disabled, the DEK cannot be obtained, or the   *)
(* cipher raises during add, the record is written with is_encrypted =     *)
(* false, its content holds the plaintext, it has neither ciphertext nor   *)
(* nonce field; and the is_encrypted add returns is the one stored.        *)
(***************************************************************************)
C17_DowngradesToPlaintext ==
    LET w == workers["w1"] IN
    (w.pc = "done" /\ w.upsert_ok /\ w.emb = EmbOk) =>
        /\ resp.ok
        /\ resp.is_encrypted = store[resp.id].is_encrypted
        /\ (~encryption \/ ~w.db_ok \/ ~w.enc_ok) =>
              /\ ~store[resp.id].is_encrypted
              /\ store[resp.id].content = w.content
              /\ "encrypted_content" \notin DOMAIN store[resp.id]
              /\ "content_nonce" \notin DOMAIN store[resp.id]

\* With encryption on and the DEK obtained, the cipher raised, and the record
\* was written in plaintext.
C17_Witness ==
    /\ encryption
    /\ workers["w1"].pc = "done"
    /\ workers["w1"].db_ok /\ ~workers["w1"].enc_ok /\ workers["w1"].upsert_ok
    /\ resp.ok /\ ~resp.is_encrypted
    /\ store[resp.id].content = workers["w1"].content
    /\ "u1" \in DOMAIN dekRows

(***************************************************************************)
(* C18.  As stated: cleanup with dry_run = true leaves the vector store    *)
(* unchanged and reports deleted_count = 0, also when the scan raises.     *)
(***************************************************************************)
C18_DryRunReportsZeroAlways ==
    [][(resp'.op = "cleanup" /\ resp'.dry_run) =>
          /\ store' = store
          /\ "deleted_count" \in DOMAIN resp'
          /\ resp'.deleted_count = 0]_vars

(***************************************************************************)
(* C18, amended.  Cleanup with dry_run = true leaves the vector store      *)
(* unchanged whatever the store holds, whatever days is and whether or not *)
(* the scan raises; a run that completes reports deleted_count = 0, and a  *)
(* run whose scan raises reports success = false and an error, without a   *)
(* deleted_count.                                                          *)
(***************************************************************************)
C18_DryRunNeverMutates ==
    [][(resp'.op = "cleanup" /\ resp'.dry_run) =>
          /\ store' = store
          /\ resp'.success => resp'.deleted_count = 0
          /\ ~resp'.success => "deleted_count" \notin DOMAIN resp']_vars

\* A dry run found a candidate, reported no deletion, and the candidate is
\* still stored.
C18_Witness ==
    /\ resp.op = "cleanup" /\ resp.dry_run /\ resp.success
    /\ resp.total_found > 0
    /\ resp.deleted_count = 0
    /\ resp.sample \subseteq DOMAIN store

(***************************************************************************)
(* C19.  cleanup(days, dry_run) selects exactly the stored records that    *)
(* are older than days, have score < 0.3 and are marked neither pinned nor *)
(* important; with dry_run = false a run that completes deletes exactly    *)
(* those, and no run deletes or changes any other record.                  *)
(***************************************************************************)
C19_Selected(days) ==
    {id \in DOMAIN store :
        /\ "created_at" \in DOMAIN store[id]
        /\ now - store[id].created_at > days * TicksPerDay
        /\ "score" \in DOMAIN store[id]
        /\ store[id].score < 300
        /\ \A flag \in {"is_pinned", "is_important"} :
              \/ "metadata" \notin DOMAIN store[id]
              \/ flag \notin DOMAIN store[id].metadata
              \/ ~store[id].metadata[flag]}

C19_DeletesExactlySelected ==
    [][(resp'.op = "cleanup" /\ now' = now) =>
          /\ \A id \in DOMAIN store' : id \in DOMAIN store /\ store'[id] = store[id]
          /\ resp'.success =>
                /\ resp'.sample = C19_Selected(resp'.days_threshold)
                /\ resp'.total_found = Cardinality(C19_Selected(resp'.days_threshold))
                /\ resp'.dry_run => DOMAIN store' = DOMAIN store
                /\ ~resp'.dry_run =>
                      /\ DOMAIN store' = DOMAIN store \ C19_Selected(resp'.days_threshold)
                      /\ resp'.deleted_count = Cardinality(C19_Selected(resp'.days_threshold))
          /\ ~resp'.success => DOMAIN store' = DOMAIN store]_vars

\* A real run deleted one record and kept a pinned one of the same age and
\* score.
C19_Witness ==
    /\ resp.op = "cleanup" /\ resp.success /\ ~resp.dry_run
    /\ resp.days_threshold = 365
    /\ resp.deleted_count = 1
    /\ resp.sample = {"old"}
    /\ "old" \notin DOMAIN store
    /\ "pinned" \in DOMAIN store

(***************************************************************************)
(* C20.  When recalculate_scores runs to completion twice in a row, with   *)
(* no other write in between and the clock unchanged, the second run       *)
(* reports updated_count = 0 and leaves the store as the first left it:    *)
(* in the state a completed run leaves, and until the clock moves or       *)
(* another task runs, the set of points a run would write is empty.        *)
(***************************************************************************)
C20_SecondRunWritesNothing ==
    (/\ resp.op = "recalculate" /\ resp.success
     /\ workers["w1"] = [pc |-> "done", at |-> now]) =>
        PointsToUpdate(store, now) = {}

\* A second run at the clock of a first one that wrote a score: it processed
\* the point and updated nothing.
C20_Witness ==
    /\ resp.op = "recalculate" /\ resp.success
    /\ resp.total_processed > 0
    /\ resp.updated_count = 0
    /\ \E id \in DOMAIN store :
          /\ "score_updated_at" \in DOMAIN store[id]
          /\ store[id].score_updated_at = now

(***************************************************************************)
(* C21.  get_timeline(entity, user_id) returns exactly the user's records  *)
(* that were added with temporal_entity = entity, none of another entity   *)
(* and none missing, in ascending order of the valid_from given to         *)
(* add_with_temporal.                                                      *)
(***************************************************************************)
C21_EntityOf(payload) == Get(Get(payload, "extra_metadata", EmptyDict), "temporal_entity", None)

C21_GivenValidFrom(payload) == Get(Get(payload, "extra_metadata", EmptyDict), "temporal_valid_from", NoTime)

C21_RecordsOf(user_id, entity) ==
    {id \in DOMAIN store : store[id].user_id = user_id /\ C21_EntityOf(store[id]) = entity}

C21_TimelineIsEntitysRecordsInOrder ==
    resp.op = "get_timeline" =>
        /\ {resp.timeline[i].memory_id : i \in DOMAIN resp.timeline} = C21_RecordsOf(resp.user_id, resp.entity)
        /\ \A i, j \in DOMAIN resp.timeline :
              i < j => C21_GivenValidFrom(store[resp.timeline[i].memory_id])
                          <= C21_GivenValidFrom(store[resp.timeline[j].memory_id])

(***************************************************************************)
(* C22.  For every entry of the list get_timeline returns, period.to is    *)
(* the record's explicit valid_until when it was added with one, otherwise *)
(* the valid_from of the next entry of the list, otherwise "present".      *)
(***************************************************************************)
C22_PeriodEndResolved ==
    resp.op = "get_timeline" =>
        \A i \in DOMAIN resp.timeline :
            LET valid_until == store[resp.timeline[i].memory_id].temporal_valid_until
            IN  resp.timeline[i].period.to =
                   IF valid_until # NoTime THEN valid_until
                   ELSE IF i < Len(resp.timeline) THEN resp.timeline[i + 1].period.from
                   ELSE Present

(***************************************************************************)
(* C23.  query_at_time(entity, t) returns the newest record of the entity  *)
(* whose validity interval contains t (valid_from <= t <= valid_until, or  *)
(* the next record's valid_from, or unbounded), and nothing when there is  *)
(* no such record: with "Vue 2" valid from 2 and "Vue 3" valid from 6, the *)
(* query at 4 returns the Vue 2 record.                                    *)
(***************************************************************************)
C23_Later(user_id, entity, id) ==
    {x \in C21_RecordsOf(user_id, entity) :
        C21_GivenValidFrom(store[x]) > C21_GivenValidFrom(store[id])}

C23_ValidAt(user_id, entity, id, t) ==
    /\ C21_GivenValidFrom(store[id]) <= t
    /\ IF store[id].temporal_valid_until # NoTime THEN t <= store[id].temporal_valid_until
       ELSE \A x \in C23_Later(user_id, entity, id) : t <= C21_GivenValidFrom(store[x])

C23_Candidates(user_id, entity, t) ==
    {id \in C21_RecordsOf(user_id, entity) : C23_ValidAt(user_id, entity, id, t)}

C23_ReturnsNewestValid ==
    resp.op = "query_at_time" =>
        LET valid == C23_Candidates(resp.user_id, resp.entity, resp.timestamp)
        IN  IF valid = {} THEN resp.result = NoMemory
            ELSE /\ resp.result # NoMemory
                 /\ resp.result[1].memory_id \in valid
                 /\ \A x \in valid : C21_GivenValidFrom(store[x])
                                        <= C21_GivenValidFrom(store[resp.result[1].memory_id])

(***************************************************************************)
(* C24.  As stated: a retried task (process_memory, update_memory_task,    *)
(* search_memory) whose body keeps raising is retried at most 3 times,     *)
(* each retry 10 seconds after the failure, so its body runs at most 4     *)
(* times and it then ends as failed; and a task whose input lacks the      *)
(* required fields (user_id and content, or user_id and query) returns     *)
(* success = false on its first run, without a retry and without touching  *)
(* the store.                                                              *)
(***************************************************************************)
C24_LacksRequired(request) ==
    \/ /\ request.task = "process_memory"
       /\ \E k \in {"user_id", "content"} : k \notin DOMAIN request.input \/ request.input[k] = ""
    \/ /\ request.task = "search_memory"
       /\ \E k \in {"user_id", "query"} : k \notin DOMAIN request.input \/ request.input[k] = ""

C24_Ran(w) == workers'[w] # workers[w] /\ workers[w].pc = "queued"

C24_RetryBound(w) ==
    /\ workers'[w].retries <= 3
    /\ workers'[w].runs <= 4
    /\ (workers'[w].pc = "queued" => workers'[w].countdown = 10)
    /\ (workers'[w].pc = "failed" => workers'[w].runs = 4)

C24_Rejected(w) ==
    /\ workers'[w].pc = "done"
    /\ ~workers'[w].result.success
    /\ workers'[w].runs = 1
    /\ store' = store

C24_BadInputAlwaysRejected ==
    [][\A w \in Workers :
          C24_Ran(w) =>
              /\ C24_RetryBound(w)
              /\ C24_LacksRequired(workers[w]) => C24_Rejected(w)]_vars

(***************************************************************************)
(* C24, amended.  The retry bound as stated.  A task whose input lacks the *)
(* required fields returns success = false without touching the store on   *)
(* the first run on which the memory service is obtained, which is its     *)
(* first run unless obtaining the service raised; a run on which obtaining *)
(* the service raises is retried like any other failure, and does not      *)
(* touch the store either.                                                 *)
(***************************************************************************)
C24_RetriesBoundedBadInputRejected ==
    [][\A w \in Workers :
          C24_Ran(w) =>
              /\ C24_RetryBound(w)
              /\ (C24_LacksRequired(workers[w]) /\ resp'.service_ok) =>
                    /\ workers'[w].pc = "done"
                    /\ ~workers'[w].result.success
                    /\ workers'[w].retries = workers[w].retries
                    /\ store' = store
                    /\ workers[w].runs = 0 => C24_Rejected(w)
              /\ (C24_LacksRequired(workers[w]) /\ ~resp'.service_ok) =>
                    /\ workers'[w].pc \in {"queued", "failed"}
                    /\ workers'[w].retries <= workers[w].retries + 1
                    /\ store' = store]_vars

\* One task used up its retries and failed after four runs; another, whose
\* input has no content, returned success = false on its first run.
C24_Witness ==
    \E w, v \in Workers :
        /\ workers[w].pc = "failed" /\ workers[w].runs = 4 /\ workers[w].retries = 3
        /\ workers[v].pc = "done" /\ workers[v].runs = 1
        /\ workers[v].task = "process_memory" /\ "content" \notin DOMAIN workers[v].input
        /\ ~workers[v].result.success


(***************************************************************************)
(* C25.  add_with_temporal never updates the predecessor before the new    *)
(* record is written: in every step, a stored record other than the one    *)
(* the step wrote changes only if the step wrote its record; so an add     *)
(* whose write fails leaves every stored record, the superseded target     *)
(* included, as it was: still current, superseded_by unset.                *)
(***************************************************************************)
C25_Changed == {id \in DOMAIN store : id \notin DOMAIN store' \/ store'[id] # store[id]}

C26_Link(id) == C4_Supersedes(store[id])

RECURSIVE C26_Reaches(_, _, _)
C26_Reaches(from, to, steps) ==
    IF steps = 0 \/ from \notin DOMAIN store \/ C26_Link(from) = NoId THEN FALSE
    ELSE C26_Link(from) = to \/ C26_Reaches(C26_Link(from), to, steps - 1)

C26_SupersedesWellFormed ==
    \A id \in DOMAIN store :
        /\ C26_Link(id) # NoId =>
              /\ C26_Link(id) \in DOMAIN store
              /\ store[C26_Link(id)].user_id = store[id].user_id
        /\ ~C26_Reaches(id, id, Cardinality(DOMAIN store))


(***************************************************************************)
(* C27.  The sector_secondary list of every stored record holds no value   *)
(* twice, whatever the LLM answered.                                       *)
(***************************************************************************)
C27_SecondaryDistinct ==
    \A id \in DOMAIN store :
        LET secondary == store[id].sector_secondary IN
        \A i, j \in DOMAIN secondary : secondary[i] = secondary[j] => i = j


(***************************************************************************)
(* C28.  A read (get_by_id, get_all, search, get_timeline, query_at_time)  *)
(* leaves the persistent state as it was: the DEK registry gains no row    *)
(* and has no row replaced, and the vector store is not written, whether   *)
(* the reader's registry row is active, inactive or absent.                *)
(***************************************************************************)
C28_Reads == {"get_by_id", "get_all", "search", "get_timeline", "query_at_time"}

C28_ReadsLeaveStateUnchanged ==
    [][resp'.op \in C28_Reads => (dekRows' = dekRows /\ store' = store)]_vars


(***************************************************************************)
(* C29.  Every record stored with is_encrypted = true stays decryptable    *)
(* by its owner: in every reachable state the owner's registry row holds   *)
(* the DEK under which the record's ciphertext was produced, so no add or  *)
(* read has replaced or dropped it.                                        *)
(***************************************************************************)
C29_Sealed(payload) ==
    /\ Get(payload, "is_encrypted", FALSE)
    /\ "encrypted_content" \in DOMAIN payload
    /\ "content_nonce" \in DOMAIN payload

C29_OwnerDecrypts(payload) ==
    /\ payload.user_id \in DOMAIN dekRows
    /\ decrypt_content(b64decode(payload.encrypted_content),
                       b64decode(payload.content_nonce),
                       decrypt_dek(dekRows[payload.user_id].encrypted_dek)) # InvalidTag

C29_EncryptedStaysDecryptable ==
    \A id \in DOMAIN store : C29_Sealed(store[id]) => C29_OwnerDecrypts(store[id])


(***************************************************************************)
(* C30.  Every successful add creates a point under an id no stored point  *)
(* has, and leaves every stored point as it was, also when two adds with   *)
(* the same user_id, title and first 100 characters of content read the    *)
(* same clock value.                                                       *)
(***************************************************************************)
C30_AddNeverOverwrites ==
    [][(resp'.op = "add" /\ resp'.ok) =>
          /\ resp'.id \notin DOMAIN store
          /\ resp'.id \in DOMAIN store'
          /\ \A id \in DOMAIN store : id \in DOMAIN store' /\ store'[id] = store[id]]_vars

====
